---- MODULE Spec2Model ----
(***************************************************************************)
(* A model of the subtype-aware unifier of crochet (crochet_infer/unify.rs) *)
(* and of the substitution machinery it rests on.  Types are records       *)
(* tagged by k; a substitution is a function from variable ids to types;   *)
(* the result of unify/bind is a record tagged Ok, Err, Panic (a todo!()   *)
(* was reached) or Overflow (the recursion budget was used up).            *)
(***************************************************************************)
EXTENDS Integers, Sequences, FiniteSets, TLC

VARIABLES pc, t1, t2, ctx, res, res2, tv, rel, block

vars == <<pc, t1, t2, ctx, res, res2, tv, rel, block>>

(***************************************************************************)
(* Bounds of the model.                                                    *)
(***************************************************************************)
\* recursion budget of unify: deeper recursion is reported as Overflow
MaxDepth == 8
\* type variables have the ids 1..MaxVar
MaxVar == 2
\* longest tuple, object, argument list and parameter list of the general inputs
MaxLen == 2
\* most alternatives of a union handed to bind
MaxUnion == 3
\* number of statements of a block
MaxStmts == 2

(***************************************************************************)
(* Types (crochet_types::Type).                                            *)
(***************************************************************************)
NoConstraint == [k |-> "None"]
\* Option<Vec<Type>>: None is the empty sequence, Some(args) the sequence <<args>>
NoTypeArgs == << >>
SomeTypeArgs(args) == <<args>>

TVar(id, c) == [k |-> "Var", id |-> id, constraint |-> c]
Var(id) == TVar(id, NoConstraint)
Keyword(kw) == [k |-> "Keyword", kw |-> kw]
Lit(lk, v) == [k |-> "Lit", lk |-> lk, v |-> v]
App(args, ret) == [k |-> "App", args |-> args, ret |-> ret]
Lam(params, ret) == [k |-> "Lam", params |-> params, ret |-> ret]
Object(elems) == [k |-> "Object", elems |-> elems]
Tuple(ts) == [k |-> "Tuple", ts |-> ts]
Array(t) == [k |-> "Array", t |-> t]
Union(ts) == [k |-> "Union", ts |-> ts]
Intersection(ts) == [k |-> "Intersection", ts |-> ts]
Ref(name, type_args) == [k |-> "Ref", name |-> name, type_args |-> type_args]
Rest(t) == [k |-> "Rest", t |-> t]
KeyOf(t) == [k |-> "KeyOf", t |-> t]
Generic(t, type_params) == [k |-> "Generic", t |-> t, type_params |-> type_params]

\* TFnParam: pat is "Ident" or "Rest"
Param(pat, t, optional) == [pat |-> pat, t |-> t, optional |-> optional]
P(t) == Param("Ident", t, FALSE)
POpt(t) == Param("Ident", t, TRUE)
PRest(t) == Param("Rest", t, FALSE)

\* TObjElem
Prop(name, optional, t) ==
    [e |-> "Prop", name |-> name, optional |-> optional, mutable |-> FALSE, t |-> t]
Index(key, t) == [e |-> "Index", key |-> key, mutable |-> FALSE, t |-> t]
Call(params, ret, type_params) ==
    [e |-> "Call", params |-> params, ret |-> ret, type_params |-> type_params]
Constructor(params, ret, type_params) ==
    [e |-> "Constructor", params |-> params, ret |-> ret, type_params |-> type_params]

Keywords == {"number", "string", "boolean", "symbol", "null", "undefined", "never"}

(***************************************************************************)
(* Results: Result<Subst, String>, plus the two ways a call does not       *)
(* return.                                                                 *)
(***************************************************************************)
EmptySubst == << >>
Ok(s) == [tag |-> "Ok", s |-> s, msg |-> ""]
Err(msg) == [tag |-> "Err", s |-> EmptySubst, msg |-> msg]
Panic(msg) == [tag |-> "Panic", s |-> EmptySubst, msg |-> msg]
Overflow == [tag |-> "Overflow", s |-> EmptySubst, msg |-> "stack overflow"]
NoResult == [tag |-> "None", s |-> EmptySubst, msg |-> ""]

IsOk(r) == r.tag = "Ok"
\* the call returned to its caller, with Ok or with Err
Returned(r) == r.tag \in {"Ok", "Err"}

(***************************************************************************)
(* Sequence helpers.                                                       *)
(***************************************************************************)
RECURSIVE Filter(_, _)
Filter(Keep(_), seq) ==
    IF seq = << >> THEN << >>
    ELSE IF Keep(Head(seq)) THEN <<Head(seq)>> \o Filter(Keep, Tail(seq))
         ELSE Filter(Keep, Tail(seq))

RECURSIVE Flatten(_)
Flatten(seqs) == IF seqs = << >> THEN << >> ELSE Head(seqs) \o Flatten(Tail(seqs))

Range(seq) == {seq[i] : i \in 1..Len(seq)}

Min(a, b) == IF a < b THEN a ELSE b

\* the first n elements of seq, and what follows them (Vec::drain(0..n))
Take(seq, n) == SubSeq(seq, 1, n)
Drop(seq, n) == SubSeq(seq, n + 1, Len(seq))

\* the elements of seq in order, each kept at its first occurrence
RECURSIVE Dedupe(_)
Dedupe(seq) ==
    IF seq = << >> THEN << >>
    ELSE LET init == Dedupe(Take(seq, Len(seq) - 1))
             last == seq[Len(seq)]
         IN IF last \in Range(init) THEN init ELSE Append(init, last)

Reverse(seq) == [i \in 1..Len(seq) |-> seq[Len(seq) + 1 - i]]

(***************************************************************************)
(* Substitutions (substitutable.rs, util.rs of crochet_infer).             *)
(***************************************************************************)
RECURSIVE apply(_, _)
applyParam(s, p) == [p EXCEPT !.t = apply(s, p.t)]

applyElem(s, e) ==
    CASE e.e = "Prop" -> [e EXCEPT !.t = apply(s, e.t)]
      [] e.e = "Index" -> [e EXCEPT !.key = applyParam(s, e.key), !.t = apply(s, e.t)]
      [] OTHER -> [e EXCEPT !.params = [i \in 1..Len(e.params) |-> applyParam(s, e.params[i])],
                            !.ret = apply(s, e.ret)]

\* Rewrites every Var whose id is in the domain of s; constraints are left alone.
apply(s, t) ==
    CASE t.k = "Var" -> IF t.id \in DOMAIN s THEN s[t.id] ELSE t
      [] t.k \in {"Keyword", "Lit"} -> t
      [] t.k = "App" ->
            App([i \in 1..Len(t.args) |-> apply(s, t.args[i])], apply(s, t.ret))
      [] t.k = "Lam" ->
            Lam([i \in 1..Len(t.params) |-> applyParam(s, t.params[i])], apply(s, t.ret))
      [] t.k = "Object" -> Object([i \in 1..Len(t.elems) |-> applyElem(s, t.elems[i])])
      [] t.k \in {"Tuple", "Union", "Intersection"} ->
            [t EXCEPT !.ts = [i \in 1..Len(t.ts) |-> apply(s, t.ts[i])]]
      [] t.k \in {"Array", "Rest", "KeyOf"} -> [t EXCEPT !.t = apply(s, t.t)]
      [] t.k = "Ref" ->
            IF t.type_args = NoTypeArgs THEN t
            ELSE Ref(t.name, SomeTypeArgs([i \in 1..Len(t.type_args[1]) |->
                                              apply(s, t.type_args[1][i])]))
      [] t.k = "Generic" -> [t EXCEPT !.t = apply(s, t.t)]

\* compose_subs(s1, s2): first s2, then s1.
compose_subs(s1, s2) ==
    [v \in (DOMAIN s1) \cup (DOMAIN s2) |->
        IF v \in DOMAIN s2 THEN apply(s1, s2[v]) ELSE s1[v]]

\* a left fold of compose_subs over ss, from the empty substitution
RECURSIVE compose_many_subs(_)
compose_many_subs(ss) ==
    IF ss = << >> THEN EmptySubst
    ELSE compose_subs(compose_many_subs(Take(ss, Len(ss) - 1)), ss[Len(ss)])

compose_many_subs_with_context(ss) == compose_many_subs(ss)

\* the set of the ids of the variables free in t
RECURSIVE ftv(_)
ftvSeq(ts) == UNION {ftv(ts[i]) : i \in 1..Len(ts)}

ftvParams(ps) == UNION {ftv(ps[i].t) : i \in 1..Len(ps)}

ftvElem(e) ==
    CASE e.e = "Prop" -> ftv(e.t)
      [] e.e = "Index" -> ftv(e.key.t) \cup ftv(e.t)
      [] OTHER -> ftvParams(e.params) \cup ftv(e.ret)

ftv(t) ==
    CASE t.k = "Var" -> {t.id}
      [] t.k \in {"Keyword", "Lit"} -> {}
      [] t.k = "App" -> ftvSeq(t.args) \cup ftv(t.ret)
      [] t.k = "Lam" -> ftvParams(t.params) \cup ftv(t.ret)
      [] t.k = "Object" -> UNION {ftvElem(t.elems[i]) : i \in 1..Len(t.elems)}
      [] t.k \in {"Tuple", "Union", "Intersection"} -> ftvSeq(t.ts)
      [] t.k \in {"Array", "Rest", "KeyOf", "Generic"} -> ftv(t.t)
      [] t.k = "Ref" -> IF t.type_args = NoTypeArgs THEN {} ELSE ftvSeq(t.type_args[1])

(***************************************************************************)
(* The context: the scheme table, and what the code leaves to the build:   *)
(* the order in which a HashSet hands back its members, and whether usize  *)
(* arithmetic is checked.                                                  *)
(***************************************************************************)
Scheme(type_params, t) == [type_params |-> type_params, t |-> t]
\* overflow_checks: whether the build panics on integer overflow (a debug build)
Context(schemes, hashOrder, overflow_checks) ==
    [schemes |-> schemes, hashOrder |-> hashOrder, overflow_checks |-> overflow_checks]

\* HashSet<Type> -> Vec<Type>: the distinct members, in one of the orders
hash_set_to_vec(types, c) ==
    IF c.hashOrder = 0 THEN Dedupe(types) ELSE Reverse(Dedupe(types))

\* Replaces the type parameters of a scheme (Refs without arguments) by types.
RECURSIVE replace_aliases(_, _)
replace_aliases_param(m, p) == [p EXCEPT !.t = replace_aliases(m, p.t)]

replace_aliases_elem(m, e) ==
    CASE e.e = "Prop" -> [e EXCEPT !.t = replace_aliases(m, e.t)]
      [] e.e = "Index" ->
            [e EXCEPT !.key = replace_aliases_param(m, e.key), !.t = replace_aliases(m, e.t)]
      [] OTHER ->
            [e EXCEPT !.params = [i \in 1..Len(e.params) |->
                                     replace_aliases_param(m, e.params[i])],
                      !.ret = replace_aliases(m, e.ret)]

replace_aliases(m, t) ==
    CASE t.k \in {"Var", "Keyword", "Lit"} -> t
      [] t.k = "App" ->
            App([i \in 1..Len(t.args) |-> replace_aliases(m, t.args[i])],
                replace_aliases(m, t.ret))
      [] t.k = "Lam" ->
            Lam([i \in 1..Len(t.params) |-> replace_aliases_param(m, t.params[i])],
                replace_aliases(m, t.ret))
      [] t.k = "Object" ->
            Object([i \in 1..Len(t.elems) |-> replace_aliases_elem(m, t.elems[i])])
      [] t.k \in {"Tuple", "Union", "Intersection"} ->
            [t EXCEPT !.ts = [i \in 1..Len(t.ts) |-> replace_aliases(m, t.ts[i])]]
      [] t.k \in {"Array", "Rest", "KeyOf", "Generic"} ->
            [t EXCEPT !.t = replace_aliases(m, t.t)]
      [] t.k = "Ref" ->
            IF t.type_args = NoTypeArgs
            THEN IF t.name \in DOMAIN m THEN m[t.name] ELSE t
            ELSE Ref(t.name, SomeTypeArgs([i \in 1..Len(t.type_args[1]) |->
                                              replace_aliases(m, t.type_args[1][i])]))

\* Context::lookup_ref_and_instantiate: the aliased type, or an error
lookup_ref_and_instantiate(alias, c) ==
    IF alias.name \in DOMAIN c.schemes
    THEN LET scheme == c.schemes[alias.name]
             args == IF alias.type_args = NoTypeArgs THEN << >> ELSE alias.type_args[1]
         IN IF Len(args) # Len(scheme.type_params)
            THEN [tag |-> "Err", msg |-> "mismatch between the number of qualifiers and type params",
                  t |-> NoConstraint]
            ELSE [tag |-> "Ok", msg |-> "",
                  t |-> replace_aliases(
                            [n \in Range(scheme.type_params) |->
                                args[CHOOSE i \in 1..Len(args) : scheme.type_params[i] = n]],
                            scheme.t)]
    ELSE IF alias.name \in Keywords
         THEN [tag |-> "Ok", msg |-> "", t |-> Keyword(alias.name)]
         ELSE [tag |-> "Err", msg |-> "Can't find type", t |-> NoConstraint]

\* key_of: the keys of an object type, as a type
key_of(t, c) ==
    IF t.k = "Object"
    THEN LET keyOf(e) == IF e.e = "Prop" THEN <<Lit("Str", e.name)>>
                         ELSE IF e.e = "Index" THEN <<e.key.t>> ELSE << >>
             keys == Flatten([i \in 1..Len(t.elems) |-> keyOf(t.elems[i])])
         IN [tag |-> "Ok", msg |-> "",
             t |-> IF Len(keys) = 0 THEN Keyword("never")
                   ELSE IF Len(keys) = 1 THEN keys[1] ELSE Union(keys)]
    ELSE [tag |-> "Err", msg |-> "key_of: not an object", t |-> NoConstraint]

\* TProp::get_type: an optional property also admits undefined
get_property_type(prop) ==
    IF prop.optional THEN Union(<<prop.t, Keyword("undefined")>>) ELSE prop.t

\* TFnParam::get_type
get_type(param) == param.t

\* simplify_intersection over object types: one object holding every property
\* name once, with the intersection of the types given to that name
simplify_intersection(obj_types) ==
    LET all == Flatten([i \in 1..Len(obj_types) |-> obj_types[i].elems])
        props == Filter(LAMBDA e : e.e = "Prop", all)
        names == Dedupe([i \in 1..Len(props) |-> props[i].name])
        typesOf(n) == Dedupe([i \in 1..Len(Filter(LAMBDA e : e.name = n, props)) |->
                                 Filter(LAMBDA e : e.name = n, props)[i].t])
        merged(n) == IF Len(typesOf(n)) = 1 THEN typesOf(n)[1]
                     ELSE Intersection(typesOf(n))
    IN Object([i \in 1..Len(names) |-> Prop(names[i], FALSE, merged(names[i]))])

(***************************************************************************)
(* unify and bind (crochet_infer/src/unify.rs).  d is the recursion budget *)
(* left; every call of unify uses one unit of it.                          *)
(***************************************************************************)
RECURSIVE unify(_, _, _, _)

Zip(as, bs) == [i \in 1..Min(Len(as), Len(bs)) |-> <<as[i], bs[i]>>]

\* for (p1, p2) in pairs { let s1 = unify(&p1.apply(&s), &p2.apply(&s), ctx)?;
\*                         s = compose_subs(&s, &s1); }
RECURSIVE unify_acc(_, _, _, _)
unify_acc(pairs, s, c, d) ==
    IF pairs = << >> THEN Ok(s)
    ELSE LET r == unify(apply(s, pairs[1][1]), apply(s, pairs[1][2]), c, d - 1)
         IN IF ~IsOk(r) THEN r
            ELSE unify_acc(Tail(pairs), compose_subs(s, r.s), c, d)

\* for (t1, t2) in pairs { let s = unify(t1, t2, ctx)?; ss.push(s); }
\* The s of the result is the list ss.
RECURSIVE unify_each(_, _, _, _)
unify_each(pairs, ss, c, d) ==
    IF pairs = << >> THEN Ok(ss)
    ELSE LET r == unify(pairs[1][1], pairs[1][2], c, d - 1)
         IN IF ~IsOk(r) THEN r
            ELSE unify_each(Tail(pairs), Append(ss, r.s), c, d)

\* for (t1, t2) in pairs { if let Ok(s) = unify(t1, t2, ctx) { ss.push(s); } }
\* The s of the result is the list ss of the calls that succeeded.
RECURSIVE unify_any(_, _, _, _)
unify_any(pairs, ss, c, d) ==
    IF pairs = << >> THEN Ok(ss)
    ELSE LET r == unify(pairs[1][1], pairs[1][2], c, d - 1)
         IN IF ~Returned(r) THEN r
            ELSE unify_any(Tail(pairs), IF IsOk(r) THEN Append(ss, r.s) ELSE ss, c, d)

\* for t in ts { let result = unify(t1, t, ctx); if result.is_ok() { return result; } }
RECURSIVE unify_first(_, _, _, _, _)
unify_first(t, ts, msg, c, d) ==
    IF ts = << >> THEN Err(msg)
    ELSE LET r == unify(t, ts[1], c, d - 1)
         IN IF IsOk(r) \/ ~Returned(r) THEN r
            ELSE unify_first(t, Tail(ts), msg, c, d)

\* a slip: the occurs check never fires
occurs_check_mut(v, t) == FALSE

occurs_check(v, t) == v.id \in ftv(t)

\* a slip: a single remaining alternative is still wrapped in a Union
bind_union_mut(v, t, c) ==
    LET elem_types_without_id ==
            Filter(LAMBDA elem_type : ~(elem_type.k = "Var" /\ elem_type.id = v.id), t.ts)
    IN IF Len(elem_types_without_id) < Len(t.ts)
       THEN Ok(v.id :> Union(hash_set_to_vec(elem_types_without_id, c)))
       ELSE Err("InfiniteType")

\* The union escape of the occurs check: t is a Union; its alternatives other
\* than v, deduplicated, become the binding of v.
bind_union(v, t, c) ==
    LET elem_types_without_id ==
            Filter(LAMBDA elem_type : ~(elem_type.k = "Var" /\ elem_type.id = v.id), t.ts)
    IN IF Len(elem_types_without_id) < Len(t.ts)
       THEN LET types == hash_set_to_vec(elem_types_without_id, c)
                nt == IF Len(types) = 1 THEN types[1] ELSE Union(types)
            IN Ok(v.id :> nt)
       ELSE Err("InfiniteType")

\* The constraint check of bind, done in one direction whatever the relation
bind_constrained_mut(v, t, r, c, d) ==
    LET checked == unify(v.constraint, t, c, d - 1)
    IN IF ~IsOk(checked) THEN checked
       ELSE IF t.k = "Var"
            THEN IF t.constraint # NoConstraint THEN Panic("todo: merge constraints")
                 ELSE Ok(v.id :> TVar(t.id, v.constraint))
            ELSE Ok(v.id :> t)

\* The constraint check of bind, v.constraint being Some(c)
bind_constrained(v, t, r, c, d) ==
    LET checked == IF r = "SubType" THEN unify(v.constraint, t, c, d - 1)
                   ELSE unify(t, v.constraint, c, d - 1)
    IN IF ~IsOk(checked) THEN checked
       ELSE IF t.k = "Var"
            THEN IF t.constraint # NoConstraint THEN Panic("todo: merge constraints")
                 ELSE Ok(v.id :> TVar(t.id, v.constraint))
            ELSE Ok(v.id :> t)

bind(v, t, r, c, d) ==
    IF t.k = "Var" /\ t.id = v.id THEN Ok(EmptySubst)
    ELSE IF occurs_check(v, t)
         THEN IF t.k = "Union" THEN bind_union(v, t, c) ELSE Err("InfiniteType")
         ELSE IF v.constraint = NoConstraint THEN Ok(v.id :> t)
              ELSE bind_constrained(v, t, r, c, d)

\* a slip: a string literal is not matched with string
lit_matches_keyword_mut(lit, keyword) ==
    \/ lit.lk = "Num" /\ keyword.kw = "number"
    \/ lit.lk = "Bool" /\ keyword.kw = "boolean"

\* (Lit, Keyword): the match that decides b
lit_matches_keyword(lit, keyword) ==
    \/ lit.lk = "Num" /\ keyword.kw = "number"
    \/ lit.lk = "Str" /\ keyword.kw = "string"
    \/ lit.lk = "Bool" /\ keyword.kw = "boolean"

unify_lit_keyword(lit, keyword) ==
    IF lit_matches_keyword(lit, keyword) THEN Ok(EmptySubst)
    ELSE Err("Unification failure")

\* (Keyword, Keyword)
unify_keywords(keyword1, keyword2) ==
    IF \/ keyword1.kw = keyword2.kw /\ keyword1.kw # "never"
       \/ keyword1.kw = "never" /\ keyword2.kw = "null"
    THEN Ok(EmptySubst)
    ELSE Err("Can't unify")

\* (App, App)
unify_apps(app1, app2, c, d) ==
    IF Len(app1.args) = Len(app2.args)
    THEN LET r == unify_acc(Zip(app1.args, app2.args), EmptySubst, c, d)
         IN IF ~IsOk(r) THEN r
            ELSE LET s1 == unify(apply(r.s, app1.ret), apply(r.s, app2.ret), c, d - 1)
                 IN IF ~IsOk(s1) THEN s1 ELSE Ok(compose_subs(r.s, s1.s))
    ELSE Err("Couldn't unify function calls")

\* (Lam, Lam)
unify_lams(lam1, lam2, c, d) ==
    IF Len(lam1.params) <= Len(lam2.params)
    THEN LET p1 == [i \in 1..Len(lam1.params) |-> get_type(lam1.params[i])]
             p2 == [i \in 1..Len(lam2.params) |-> get_type(lam2.params[i])]
             r == unify_acc(Zip(p2, p1), EmptySubst, c, d)
         IN IF ~IsOk(r) THEN r
            ELSE LET s1 == unify(apply(r.s, lam1.ret), apply(r.s, lam2.ret), c, d - 1)
                 IN IF ~IsOk(s1) THEN s1 ELSE Ok(compose_subs(r.s, s1.s))
    ELSE Err("Couldn't unify lambdas")

\* (App, Object): the call signatures of the object, as function types
callables_of(obj) ==
    LET callable(elem) ==
            IF elem.e = "Call"
            THEN LET lam == Lam(elem.params, elem.ret)
                 IN <<IF elem.type_params = << >> THEN lam
                      ELSE Generic(lam, elem.type_params)>>
            ELSE << >>
    IN Flatten([i \in 1..Len(obj.elems) |-> callable(obj.elems[i])])

unify_app_object(app, obj, c, d) ==
    unify_first(app, callables_of(obj), "Couldn't application with object", c, d)

\* (App, Lam): the low bound with the optional parameters counted as required
param_count_low_bound_mut(lam) ==
    LET has_rest == Len(lam.params) > 0 /\ lam.params[Len(lam.params)].pat = "Rest"
    IN Len(lam.params) - (IF has_rest THEN 1 ELSE 0)

\* (App, Lam): lam.params.len() - optional_count [- 1], in usize
param_count_low_bound(lam) ==
    LET optional_count == Cardinality({i \in 1..Len(lam.params) : lam.params[i].optional})
        has_rest == Len(lam.params) > 0 /\ lam.params[Len(lam.params)].pat = "Rest"
    IN Len(lam.params) - optional_count - (IF has_rest THEN 1 ELSE 0)

\* (App, Lam): the arguments with every Rest(Tuple) expanded inline
flatten_args(app_args) ==
    Flatten([i \in 1..Len(app_args) |->
                IF app_args[i].k = "Rest"
                THEN IF app_args[i].t.k = "Tuple" THEN app_args[i].t.ts ELSE << >>
                ELSE <<app_args[i]>>])

\* (App, Lam), the lambda having a rest parameter of type rest_param
unify_app_lam_rest(app, lam, args, rest_param, c, d) ==
    LET max_regular_arg_count == Len(lam.params) - 1
        regular_arg_count == Min(max_regular_arg_count, Len(args))
    IN IF regular_arg_count > Len(app.args)
       THEN Panic("drain: range end out of bounds")
       ELSE LET regular_args == Take(app.args, regular_arg_count)
                rest_arg == Tuple(Drop(app.args, regular_arg_count))
                regular_params == Take(lam.params, regular_arg_count)
                param_types == [i \in 1..Len(regular_params) |->
                                   get_type(regular_params[i])]
                r == unify_acc(Zip(regular_args, param_types), EmptySubst, c, d)
            IN IF ~IsOk(r) THEN r
               ELSE LET s1 == unify(rest_arg, rest_param, c, d - 1)
                    IN IF ~IsOk(s1) THEN s1
                       ELSE LET s2 == unify(apply(r.s, app.ret), apply(r.s, lam.ret),
                                            c, d - 1)
                            IN IF ~IsOk(s2) THEN s2
                               ELSE Ok(compose_subs(s2.s, s1.s))

\* (App, Lam), the lambda having no rest parameter, extra arguments rejected
unify_app_lam_regular_mut(app, lam, args, c, d) ==
    LET param_types == [i \in 1..Len(lam.params) |-> get_type(lam.params[i])]
        r == unify_acc(Zip(args, param_types), EmptySubst, c, d)
    IN IF Len(args) > Len(lam.params) THEN Err("Too many args provided")
       ELSE IF ~IsOk(r) THEN r
       ELSE LET s1 == unify(apply(r.s, app.ret), apply(r.s, lam.ret), c, d - 1)
            IN IF ~IsOk(s1) THEN s1 ELSE Ok(compose_subs(r.s, s1.s))

\* (App, Lam), the lambda having no rest parameter: extra arguments are ignored
unify_app_lam_regular(app, lam, args, c, d) ==
    LET param_types == [i \in 1..Len(lam.params) |-> get_type(lam.params[i])]
        r == unify_acc(Zip(args, param_types), EmptySubst, c, d)
    IN IF ~IsOk(r) THEN r
       ELSE LET s1 == unify(apply(r.s, app.ret), apply(r.s, lam.ret), c, d - 1)
            IN IF ~IsOk(s1) THEN s1 ELSE Ok(compose_subs(r.s, s1.s))

\* (App, Lam)
unify_app_lam(app, lam, c, d) ==
    LET has_rest == Len(lam.params) > 0 /\ lam.params[Len(lam.params)].pat = "Rest"
        low_bound == param_count_low_bound(lam)
        bad_spread == \E i \in 1..Len(app.args) :
                          app.args[i].k = "Rest" /\ app.args[i].t.k # "Tuple"
        args == flatten_args(app.args)
    IN IF low_bound < 0 /\ c.overflow_checks
       THEN Panic("attempt to subtract with overflow")
       ELSE IF bad_spread THEN Err("spread of type not allowed")
       ELSE IF low_bound < 0 \/ Len(args) < low_bound
            THEN Err("Not enough args provided")
       ELSE IF has_rest
            THEN unify_app_lam_rest(app, lam, args, lam.params[Len(lam.params)].t, c, d)
            ELSE unify_app_lam_regular(app, lam, args, c, d)

\* (Object, Object): the loop over obj1.elems for one element e2 of obj2.  The s
\* of the result is the list ss; b is true exactly when ss is not empty.
RECURSIVE unify_elem_candidates(_, _, _, _, _)
unify_elem_candidates(elems1, e2, ss, c, d) ==
    IF elems1 = << >> THEN Ok(ss)
    ELSE LET e1 == elems1[1]
         IN IF e1.e = "Call" /\ e2.e = "Call" THEN Panic("not yet implemented")
            ELSE IF e1.e = "Prop" /\ e2.e = "Prop" /\ e1.name = e2.name
                 THEN LET r == unify(get_property_type(e1), get_property_type(e2),
                                     c, d - 1)
                      IN IF ~Returned(r) THEN r
                         ELSE unify_elem_candidates(Tail(elems1), e2,
                                  IF IsOk(r) THEN Append(ss, r.s) ELSE ss, c, d)
                 ELSE unify_elem_candidates(Tail(elems1), e2, ss, c, d)

\* (Object, Object): the closure mapped over obj2.elems, with no allowance for
\* optional properties
unify_obj_elem_mut(obj1, e2, c, d) ==
    LET r == unify_elem_candidates(obj1.elems, e2, << >>, c, d)
    IN IF ~IsOk(r) THEN r
       ELSE IF r.s # << >> THEN Ok(compose_many_subs(r.s))
            ELSE Err("Unification failure")

\* (Object, Object): the closure mapped over obj2.elems
unify_obj_elem(obj1, e2, c, d) ==
    LET r == unify_elem_candidates(obj1.elems, e2, << >>, c, d)
    IN IF ~IsOk(r) THEN r
       ELSE IF r.s # << >> THEN Ok(compose_many_subs(r.s))
            ELSE IF e2.e = "Prop" /\ e2.optional THEN Ok(EmptySubst)
                 ELSE Err("Unification failure")

\* collect::<Result<Vec<_>, String>>() stops at the first element that fails
RECURSIVE unify_obj_elems(_, _, _, _, _)
unify_obj_elems(obj1, elems2, ss, c, d) ==
    IF elems2 = << >> THEN Ok(ss)
    ELSE LET r == unify_obj_elem(obj1, elems2[1], c, d)
         IN IF ~IsOk(r) THEN r
            ELSE unify_obj_elems(obj1, Tail(elems2), Append(ss, r.s), c, d)

\* (Object, Object)
unify_objects(obj1, obj2, c, d) ==
    LET r == unify_obj_elems(obj1, obj2.elems, << >>, c, d)
    IN IF ~IsOk(r) THEN r ELSE Ok(compose_many_subs(r.s))

\* (Tuple, Tuple), a tuple of exactly the required length rejected
unify_tuples_mut(types1, types2, c, d) ==
    LET rests == {i \in 1..Len(types2) : types2[i].k = "Rest"}
    IN IF Cardinality(rests) > 1
       THEN Err("Only one rest pattern is allowed in a tuple")
       ELSE LET has_rest == rests # {}
                at == IF has_rest THEN CHOOSE i \in rests : TRUE ELSE Len(types2) + 1
                before2 == Take(types2, at - 1)
                after2 == Drop(types2, at)
                min_len == Len(before2) + Len(after2)
            IN IF Len(types1) <= min_len THEN Err("not enough elements to unpack")
               ELSE LET rest_len == Len(types1) - min_len
                        before1 == Take(types1, Len(before2))
                        left == Drop(types1, Len(before2))
                        r1 == unify_each(Zip(before1, before2), << >>, c, d)
                    IN IF ~IsOk(r1) THEN r1
                       ELSE IF ~has_rest THEN Ok(compose_many_subs(r1.s))
                       ELSE LET rest1 == Take(left, rest_len)
                                after1 == Drop(left, rest_len)
                                r2 == unify(Tuple(rest1), types2[at].t, c, d - 1)
                            IN IF ~IsOk(r2) THEN r2
                               ELSE LET r3 == unify_each(Zip(after1, after2),
                                                         Append(r1.s, r2.s), c, d)
                                    IN IF ~IsOk(r3) THEN r3
                                       ELSE Ok(compose_many_subs(r3.s))

\* (Tuple, Tuple)
unify_tuples(types1, types2, c, d) ==
    LET rests == {i \in 1..Len(types2) : types2[i].k = "Rest"}
    IN IF Cardinality(rests) > 1
       THEN Err("Only one rest pattern is allowed in a tuple")
       ELSE LET has_rest == rests # {}
                at == IF has_rest THEN CHOOSE i \in rests : TRUE ELSE Len(types2) + 1
                before2 == Take(types2, at - 1)
                after2 == Drop(types2, at)
                min_len == Len(before2) + Len(after2)
            IN IF Len(types1) < min_len THEN Err("not enough elements to unpack")
               ELSE LET rest_len == Len(types1) - min_len
                        before1 == Take(types1, Len(before2))
                        left == Drop(types1, Len(before2))
                        r1 == unify_each(Zip(before1, before2), << >>, c, d)
                    IN IF ~IsOk(r1) THEN r1
                       ELSE IF ~has_rest THEN Ok(compose_many_subs(r1.s))
                       ELSE LET rest1 == Take(left, rest_len)
                                after1 == Drop(left, rest_len)
                                r2 == unify(Tuple(rest1), types2[at].t, c, d - 1)
                            IN IF ~IsOk(r2) THEN r2
                               ELSE LET r3 == unify_each(Zip(after1, after2),
                                                         Append(r1.s, r2.s), c, d)
                                    IN IF ~IsOk(r3) THEN r3
                                       ELSE Ok(compose_many_subs(r3.s))

\* (Tuple, Array)
unify_tuple_array(tuple_types, array_type, c, d) ==
    LET r == unify_each([i \in 1..Len(tuple_types) |-> <<tuple_types[i], array_type>>],
                        << >>, c, d)
    IN IF ~IsOk(r) THEN r ELSE Ok(compose_many_subs(r.s))

\* (Union, _)
unify_union_left(types, t, c, d) ==
    LET r == unify_each([i \in 1..Len(types) |-> <<types[i], t>>], << >>, c, d)
    IN IF ~IsOk(r) THEN r ELSE Ok(compose_many_subs_with_context(r.s))

\* (_, Union)
unify_union_right(t, types, c, d) ==
    LET r == unify_any([i \in 1..Len(types) |-> <<t, types[i]>>], << >>, c, d)
    IN IF ~IsOk(r) THEN r
       ELSE IF r.s # << >> THEN Ok(compose_many_subs(r.s))
            ELSE Err("Unification failure")

\* (Object, Intersection) and (Intersection, Object): the members of the
\* intersection that are objects, simplified, and its members that are variables
obj_type_of(types) == simplify_intersection(Filter(LAMBDA t : t.k = "Object", types))

rest_types_of(types) == Filter(LAMBDA t : t.k = "Var", types)

\* whether an element of the simplified object has the name of the property e
named_in(all_obj_elems, e) ==
    \E i \in 1..Len(all_obj_elems) :
        /\ all_obj_elems[i].e = "Prop"
        /\ e.e = "Prop"
        /\ all_obj_elems[i].name = e.name

\* (Object, Intersection)
unify_object_intersection(a, obj, types, c, d) ==
    LET obj_type == obj_type_of(types)
        rest_types == rest_types_of(types)
    IN IF Len(rest_types) = 0 THEN unify(a, obj_type, c, d - 1)
       ELSE IF Len(rest_types) > 1 THEN Err("Unification is undecidable")
       ELSE LET obj_elems == Filter(LAMBDA e : named_in(obj_type.elems, e), obj.elems)
                rest_elems == Filter(LAMBDA e : ~named_in(obj_type.elems, e), obj.elems)
                s1 == unify(Object(obj_elems), obj_type, c, d - 1)
            IN IF ~IsOk(s1) THEN s1
               ELSE LET s2 == unify(Object(rest_elems), rest_types[1], c, d - 1)
                    IN IF ~IsOk(s2) THEN s2 ELSE Ok(compose_subs(s2.s, s1.s))

\* (Intersection, Object)
unify_intersection_object(types, b, obj, c, d) ==
    LET obj_type == obj_type_of(types)
        rest_types == rest_types_of(types)
    IN IF Len(rest_types) = 0 THEN unify(obj_type, b, c, d - 1)
       ELSE IF Len(rest_types) > 1 THEN Err("Unification is undecidable")
       ELSE LET obj_elems == Filter(LAMBDA e : named_in(obj_type.elems, e), obj.elems)
                rest_elems == Filter(LAMBDA e : ~named_in(obj_type.elems, e), obj.elems)
                s_obj == unify(obj_type, Object(obj_elems), c, d - 1)
            IN IF ~IsOk(s_obj) THEN s_obj
               ELSE LET s_rest == unify(rest_types[1], Object(rest_elems), c, d - 1)
                    IN IF ~IsOk(s_rest) THEN s_rest
                       ELSE Ok(compose_subs(s_rest.s, s_obj.s))

\* (Ref, Ref)
unify_refs(alias1, alias2, c, d) ==
    IF alias1.name = alias2.name
    THEN IF alias1.type_args # NoTypeArgs /\ alias2.type_args # NoTypeArgs
         THEN LET r == unify_each(Zip(alias1.type_args[1], alias2.type_args[1]), << >>, c, d)
              IN IF ~IsOk(r) THEN r ELSE Ok(compose_many_subs_with_context(r.s))
         ELSE IF alias1.type_args = NoTypeArgs /\ alias2.type_args = NoTypeArgs
              THEN Ok(EmptySubst)
              ELSE Err("Alias type mismatch")
    ELSE Panic("not yet implemented: unify(): handle aliases that point to another alias")

\* (_, Ref)
unify_with_ref(a, alias, c, d) ==
    LET alias_t == lookup_ref_and_instantiate(alias, c)
    IN IF alias_t.tag # "Ok" THEN Err(alias_t.msg) ELSE unify(a, alias_t.t, c, d - 1)

\* (Ref, _)
unify_ref_with(alias, b, c, d) ==
    LET alias_t == lookup_ref_and_instantiate(alias, c)
    IN IF alias_t.tag # "Ok" THEN Err(alias_t.msg) ELSE unify(alias_t.t, b, c, d - 1)

\* (_, KeyOf)
unify_with_keyof(a, t, c, d) ==
    LET keys == key_of(t, c)
    IN IF keys.tag # "Ok" THEN Err(keys.msg) ELSE unify(a, keys.t, c, d - 1)

\* Returns Ok(s) if b admits all values from a, and an Err otherwise.  The arms
\* are tried in the order of the match of the code.
unify(a, b, c, d) ==
    IF d <= 0 THEN Overflow
    ELSE IF a.k = "Var" THEN bind(a, b, "SubType", c, d)
    ELSE IF b.k = "Var" THEN bind(b, a, "SuperType", c, d)
    ELSE IF a.k = "Lit" /\ b.k = "Keyword" THEN unify_lit_keyword(a, b)
    ELSE IF a.k = "App" /\ b.k = "App" THEN unify_apps(a, b, c, d)
    ELSE IF a.k = "Lam" /\ b.k = "Lam" THEN unify_lams(a, b, c, d)
    ELSE IF a.k = "Lam" /\ b.k = "App" THEN unify(b, a, c, d - 1)
    ELSE IF a.k = "App" /\ b.k = "Object" THEN unify_app_object(a, b, c, d)
    ELSE IF a.k = "App" /\ b.k = "Lam" THEN unify_app_lam(a, b, c, d)
    ELSE IF a.k = "App" /\ b.k = "Intersection"
         THEN unify_first(a, b.ts, "Couldn't unify lambda with intersection", c, d)
    ELSE IF a.k = "Object" /\ b.k = "Object" THEN unify_objects(a, b, c, d)
    ELSE IF a.k = "Tuple" /\ b.k = "Tuple" THEN unify_tuples(a.ts, b.ts, c, d)
    ELSE IF a.k = "Tuple" /\ b.k = "Array" THEN unify_tuple_array(a.ts, b.t, c, d)
    ELSE IF a.k = "Array" /\ b.k = "Array" THEN unify(a.t, b.t, c, d - 1)
    ELSE IF a.k = "Union" THEN unify_union_left(a.ts, b, c, d)
    ELSE IF b.k = "Union" THEN unify_union_right(a, b.ts, c, d)
    ELSE IF a.k = "Object" /\ b.k = "Intersection"
         THEN unify_object_intersection(a, a, b.ts, c, d)
    ELSE IF a.k = "Intersection" /\ b.k = "Object"
         THEN unify_intersection_object(a.ts, b, b, c, d)
    ELSE IF a.k = "Ref" /\ b.k = "Ref" THEN unify_refs(a, b, c, d)
    ELSE IF b.k = "Ref" THEN unify_with_ref(a, b, c, d)
    ELSE IF a.k = "Ref" THEN unify_ref_with(a, b, c, d)
    ELSE IF a.k = "Array" /\ b.k = "Rest" THEN unify(a.t, b.t, c, d - 1)
    ELSE IF b.k = "KeyOf" THEN unify_with_keyof(a, b.t, c, d)
    ELSE IF a.k = "Keyword" /\ b.k = "Keyword" THEN unify_keywords(a, b)
    ELSE IF a = b THEN Ok(EmptySubst)
    ELSE Err("Unification failure")

(***************************************************************************)
(* Inputs.                                                                 *)
(***************************************************************************)
SeqsUpTo(S, n) == UNION {[1..m -> S] : m \in 0..n}

number == Keyword("number")
string == Keyword("string")
undefined == Keyword("undefined")
never == Keyword("never")
five == Lit("Num", "5")
six == Lit("Num", "6")
strA == Lit("Str", "a")
true == Lit("Bool", "true")

Vars == {Var(i) : i \in 1..MaxVar}
KeywordTypes == {Keyword(kw) : kw \in Keywords}
LitTypes == {five, six, strA, true}
Atoms == Vars \cup KeywordTypes \cup LitTypes

\* what the general inputs are built from
Elems == {Var(1), number, string, five}

TupleTypes == {Tuple(ts) : ts \in SeqsUpTo(Elems \ {string}, MaxLen)}
ArrayTypes == {Array(t) : t \in Elems}
UnionTypes == {Union(<<a, b>>) : a, b \in Elems} \ {Union(<<a, a>>) : a \in Elems}
ObjectTypes ==
    {Object(<<Prop("a", FALSE, a)>>) : a \in Elems}
        \cup {Object(<<Prop("a", FALSE, a), Prop("b", FALSE, b)>>) : a, b \in Elems}
AppTypes == {App(args, Var(MaxVar)) : args \in SeqsUpTo({Var(1), five}, MaxLen)}
LamTypes ==
    {Lam([i \in 1..Len(ts) |-> P(ts[i])], number) : ts \in SeqsUpTo({Var(1), number}, MaxLen)}

\* never is left to SpecAtoms
Types == (Atoms \ {never}) \cup TupleTypes \cup ArrayTypes \cup UnionTypes \cup ObjectTypes
             \cup AppTypes \cup LamTypes

EmptyContext == Context(<< >>, 0, TRUE)

(***************************************************************************)
(* Spec: one call unify(t1, t2, ctx), and after a success the call         *)
(* unify(apply(s, t1), apply(s, t2), ctx) with the substitution s it gave. *)
(***************************************************************************)
Init ==
    /\ pc = "start"
    /\ t1 \in Types
    /\ t2 \in Types
    /\ ctx = EmptyContext
    /\ res = NoResult
    /\ res2 = NoResult
    /\ tv = NoConstraint
    /\ rel = "SubType"
    /\ block = << >>

Unify ==
    /\ pc = "start"
    /\ res' = unify(t1, t2, ctx, MaxDepth)
    /\ pc' = "unified"
    /\ UNCHANGED <<t1, t2, ctx, res2, tv, rel, block>>

Reunify ==
    /\ pc = "unified"
    /\ IsOk(res)
    /\ res2' = unify(apply(res.s, t1), apply(res.s, t2), ctx, MaxDepth)
    /\ pc' = "reunified"
    /\ UNCHANGED <<t1, t2, ctx, res, tv, rel, block>>

Next == Unify \/ Reunify

Spec == Init /\ [][Next]_vars

\* C1: whenever unify(t1, t2, ctx) returns Ok(s), unify(apply(s, t1), apply(s, t2), ctx)
\* succeeds too, also when one variable occurs in several properties, elements or
\* arguments.
C1_UnifierIsFixedPoint == pc = "reunified" => IsOk(res2)

(***************************************************************************)
(* SpecAtoms: one call unify(t1, t2, ctx) on variables, keywords and       *)
(* literals.                                                               *)
(***************************************************************************)
InitAtoms ==
    /\ pc = "start"
    /\ t1 \in Atoms
    /\ t2 \in Atoms
    /\ ctx = EmptyContext
    /\ res = NoResult
    /\ res2 = NoResult
    /\ tv = NoConstraint
    /\ rel = "SubType"
    /\ block = << >>

UnifyAtoms ==
    /\ pc = "start"
    /\ res' = unify(t1, t2, ctx, MaxDepth)
    /\ pc' = "unified"
    /\ UNCHANGED <<t1, t2, ctx, res2, tv, rel, block>>

NextAtoms == UnifyAtoms

SpecAtoms == InitAtoms /\ [][NextAtoms]_vars

\* the keyword a literal of kind lk belongs to
KeywordOfLit(lk) ==
    CASE lk = "Num" -> "number" [] lk = "Str" -> "string" [] lk = "Bool" -> "boolean"

\* C5: unify(Lit l, Keyword k) returns the empty substitution exactly when k is the
\* keyword of l's kind and fails for every other pair; unify(Keyword k, Lit l) fails.
C5_LitKeyword ==
    pc = "unified" =>
        /\ (t1.k = "Lit" /\ t2.k = "Keyword") =>
                IF t2.kw = KeywordOfLit(t1.lk) THEN res = Ok(EmptySubst)
                ELSE res.tag = "Err"
        /\ (t1.k = "Keyword" /\ t2.k = "Lit") => res.tag = "Err"

C5_Witness ==
    /\ pc = "unified"
    /\ t1 = strA
    /\ t2 = string
    /\ res = Ok(EmptySubst)

\* C6: unify(never, k) returns the empty substitution for every keyword k; any
\* other two keywords unify only when they are the same keyword.
C6_NeverIsBottom ==
    (pc = "unified" /\ t1.k = "Keyword" /\ t2.k = "Keyword") =>
        IF t1 = never THEN res = Ok(EmptySubst)
        ELSE (IsOk(res) <=> t1.kw = t2.kw)

(***************************************************************************)
(* SpecBind: one call bind(tv, t2, rel, ctx).  The unions among the inputs *)
(* are canonical: at least two alternatives, no two of them equal, none of *)
(* them a Union.                                                           *)
(***************************************************************************)
\* a variable with a constraint; its id is not the id of another variable
ConstrainedVar == TVar(MaxVar + 1, number)
BindVars == Vars \cup {ConstrainedVar}

Alternatives == Vars \cup {number, string, Array(Var(1))}
CanonicalUnions ==
    {Union(ts) : ts \in {f \in UNION {[1..n -> Alternatives] : n \in 2..MaxUnion} :
                            \A i, j \in DOMAIN f : i # j => f[i] # f[j]}}
BindTypes ==
    BindVars \cup {number, string, five}
        \cup {Array(v) : v \in Vars} \cup {Tuple(<<v, number>>) : v \in Vars}
        \cup {Lam(<<P(number)>>, v) : v \in Vars}
        \cup CanonicalUnions
        \cup {Union(<<ConstrainedVar, string>>), Union(<<number, ConstrainedVar>>)}

InitBind ==
    /\ pc = "start"
    /\ tv \in BindVars
    /\ t2 \in BindTypes
    /\ rel \in {"SubType", "SuperType"}
    /\ rel = "SuperType" => t2.k # "Var"
    /\ ctx \in {Context(<< >>, o, TRUE) : o \in {0, 1}}
    /\ t1 = tv
    /\ res = NoResult
    /\ res2 = NoResult
    /\ block = << >>

\* bind is private to unify: it is entered from the first arm with the variable
\* on the left (SubType) and from the second with the variable on the right
\* (SuperType), where the other type is then not a variable.
Bind ==
    /\ pc = "start"
    /\ res' = unify(IF rel = "SubType" THEN tv ELSE t2,
                    IF rel = "SubType" THEN t2 ELSE tv, ctx, MaxDepth)
    /\ pc' = "bound"
    /\ UNCHANGED <<t1, t2, ctx, res2, tv, rel, block>>

NextBind == Bind

SpecBind == InitBind /\ [][NextBind]_vars

\* v is the type t
IsVar(v, t) == t.k = "Var" /\ t.id = v.id

\* v occurs in t: t is v, or v occurs in a component of t
RECURSIVE OccursIn(_, _)
OccursIn(v, t) ==
    \/ IsVar(v, t)
    \/ t.k \in {"Array", "Rest"} /\ OccursIn(v, t.t)
    \/ t.k \in {"Tuple", "Union"} /\ \E i \in 1..Len(t.ts) : OccursIn(v, t.ts[i])
    \/ t.k = "Lam" /\ (\/ OccursIn(v, t.ret)
                       \/ \E i \in 1..Len(t.params) : OccursIn(v, t.params[i].t))

\* t is a Union with v as one of its direct alternatives
HasDirectAlternative(v, t) == t.k = "Union" /\ \E i \in 1..Len(t.ts) : IsVar(v, t.ts[i])

\* C2: bind(v, t) returns the InfiniteType error whenever v occurs free in t, t is
\* not v and t is not a Union with v as a direct alternative; bind(v, v) returns the
\* empty substitution.
C2_OccursCheck ==
    pc = "bound" =>
        /\ (OccursIn(tv, t2) /\ ~IsVar(tv, t2) /\ ~HasDirectAlternative(tv, t2))
               => res = Err("InfiniteType")
        /\ IsVar(tv, t2) => res = Ok(EmptySubst)

C2_Witness ==
    /\ pc = "bound"
    /\ t2 = Union(<<number, Array(Var(1))>>)
    /\ tv = Var(1)
    /\ res = Err("InfiniteType")

\* a Union with at least two alternatives, no two of them equal, none a Union
IsCanonicalUnion(t) ==
    /\ Len(t.ts) >= 2
    /\ \A i, j \in 1..Len(t.ts) : i # j => t.ts[i] # t.ts[j]
    /\ \A i \in 1..Len(t.ts) : t.ts[i].k # "Union"

\* the alternatives of the union t that are not v
OtherAlternatives(v, t) == {t.ts[i] : i \in {j \in 1..Len(t.ts) : ~IsVar(v, t.ts[j])}}

C3_Witness ==
    /\ pc = "bound"
    /\ tv = Var(1)
    /\ t2 = Union(<<number, Var(1)>>)
    /\ res = Ok(1 :> number)

C27_BindingIsSound ==
    (pc = "bound" /\ IsOk(res) /\ tv.id \in DOMAIN res.s) =>
        LET bound == res.s[tv.id]
        IN /\ ~OccursIn(tv, bound)
           /\ tv.constraint # NoConstraint =>
                 IsOk(unify(IF rel = "SubType" THEN tv.constraint ELSE bound,
                            IF rel = "SubType" THEN bound ELSE tv.constraint,
                            ctx, MaxDepth))

\* the same on the ordinary path, t not being a Union with v as an alternative
C27_OrdinaryPath ==
    (pc = "bound" /\ IsOk(res) /\ tv.id \in DOMAIN res.s
        /\ ~HasDirectAlternative(tv, t2)) =>
        LET bound == res.s[tv.id]
        IN /\ ~OccursIn(tv, bound)
           /\ tv.constraint # NoConstraint =>
                 IsOk(unify(IF rel = "SubType" THEN tv.constraint ELSE bound,
                            IF rel = "SubType" THEN bound ELSE tv.constraint,
                            ctx, MaxDepth))

\* bind(t1, t1 | t1[]) binds t1 to t1[]
C27_EscapeKeepsVariable ==
    /\ pc = "bound"
    /\ tv = Var(1)
    /\ t2 = Union(<<Var(1), Array(Var(1))>>)
    /\ res = Ok(1 :> Array(Var(1)))

\* the variable constrained by number is bound to string by the union escape
C27_EscapeSkipsConstraint ==
    /\ pc = "bound"
    /\ tv = ConstrainedVar
    /\ t2 = Union(<<ConstrainedVar, string>>)
    /\ res = Ok(ConstrainedVar.id :> string)

(***************************************************************************)
(* infer_block: the substitutions of the statements of a block are         *)
(* composed as the statements are inferred.                                *)
(***************************************************************************)
\* the variables the statements of a block bind, and the types they bind them to
SubstVars == {1, 2}

SubstRange == {number, Var(1), Array(Var(2))}

\* the substitutions a statement may produce
Substs == UNION {[D -> SubstRange] : D \in SUBSET SubstVars}

\* the types a statement may produce
StmtTypes == {undefined, Var(1)}

\* the types the composed substitution is compared on
ProbeTypes ==
    {Var(i) : i \in 1..MaxVar}
        \cup {number, Array(Var(1)), Tuple(<<Var(1), Var(2)>>),
              Lam(<<P(Var(1))>>, Var(2)), Union(<<Var(1), number>>)}

\* the body of the loop: let (new_s, new_t) = infer_stmt(..)?;
\* t = new_t.apply(&s); s = compose_subs(&new_s, &s);
infer_block_step_mut(s, new_s, new_t) ==
    [t |-> apply(s, new_t), s |-> compose_subs(s, new_s)]

infer_block_step(s, new_s, new_t) ==
    [t |-> apply(s, new_t), s |-> compose_subs(new_s, s)]

InitBlock ==
    /\ pc = "block"
    /\ block \in {[n |-> n, i |-> 0, s |-> EmptySubst, t |-> undefined,
                   prev_s |-> EmptySubst, new_s |-> EmptySubst,
                   count |-> 0, new_count |-> 0] : n \in 0..MaxStmts}
    /\ t1 = undefined
    /\ t2 = undefined
    /\ tv = Var(1)
    /\ rel = "SubType"
    /\ ctx = EmptyContext
    /\ res = NoResult
    /\ res2 = NoResult

\* one iteration of the loop whose statement is inferred: the statement yields
\* new_s and new_t and may have drawn a fresh variable from new_ctx
BlockStmt ==
    /\ pc = "block"
    /\ block.i < block.n
    /\ \E new_s \in Substs, new_t \in StmtTypes, fresh \in 0..1 :
          LET step == infer_block_step(block.s, new_s, new_t)
          IN block' = [block EXCEPT !.i = @ + 1, !.t = step.t, !.s = step.s,
                                    !.prev_s = block.s, !.new_s = new_s,
                                    !.new_count = @ + fresh]
    /\ UNCHANGED <<pc, t1, t2, ctx, res, res2, tv, rel>>

\* infer_stmt fails: the ? operator returns the error, ctx.count is not updated
BlockFail ==
    /\ pc = "block"
    /\ block.i < block.n
    /\ pc' = "block_err"
    /\ res' = Err("TypeError")
    /\ UNCHANGED <<block, t1, t2, ctx, res2, tv, rel>>

\* the loop is over: ctx.count = new_ctx.count; Ok((s, t))
BlockReturn ==
    /\ pc = "block"
    /\ block.i = block.n
    /\ block' = [block EXCEPT !.count = block.new_count]
    /\ pc' = "block_done"
    /\ res' = Ok(block.s)
    /\ UNCHANGED <<t1, t2, ctx, res2, tv, rel>>

NextBlock == BlockStmt \/ BlockFail \/ BlockReturn

SpecBlock == InitBlock /\ [][NextBlock]_vars

\* C4: the substitution a block holds after a statement is compose(new_s, s) of
\* the statement's substitution new_s and the substitution s held before it; it
\* maps every v of dom(s) to apply(new_s, s(v)), adds the bindings of new_s whose
\* variable is not in dom(s), and applying it to a type T gives
\* apply(new_s, apply(s, T)).
C4_ComposeIsSequentialApply ==
    (pc \in {"block", "block_done", "block_err"} /\ block.i >= 1) =>
        /\ DOMAIN block.s = (DOMAIN block.new_s) \cup (DOMAIN block.prev_s)
        /\ \A v \in DOMAIN block.prev_s :
               block.s[v] = apply(block.new_s, block.prev_s[v])
        /\ \A v \in (DOMAIN block.new_s) \ (DOMAIN block.prev_s) :
               block.s[v] = block.new_s[v]
        /\ \A T \in ProbeTypes :
               apply(block.s, T) = apply(block.new_s, apply(block.prev_s, T))

C4_Witness ==
    /\ pc = "block"
    /\ block.i = 2
    /\ block.prev_s = (1 :> Array(Var(2)))
    /\ block.new_s = (1 :> number) @@ (2 :> Var(1))
    /\ block.s = (1 :> Array(Var(1))) @@ (2 :> Var(1))
    /\ block.t = Array(Var(2))

(***************************************************************************)
(* unify on pairs of object types.                                         *)
(***************************************************************************)
IndexSignature == Index(P(string), number)
CallSignature == Call(<<P(number)>>, string, << >>)

\* the elements of the subtype object
ObjElems1 ==
    {Prop("a", FALSE, five), Prop("a", FALSE, Var(2)), Prop("a", TRUE, five),
     Prop("b", FALSE, strA), IndexSignature, CallSignature}

\* the elements of the supertype object
ObjElems2 ==
    ({Prop(n, o, t) : n \in {"a", "b"}, o \in BOOLEAN, t \in {number, string}}
        \ {Prop("b", o, number) : o \in BOOLEAN})
        \cup {IndexSignature, CallSignature}

InitObj ==
    /\ pc = "start"
    /\ t1 \in {Object(es) : es \in SeqsUpTo(ObjElems1, MaxLen)}
    /\ t2 \in {Object(es) : es \in SeqsUpTo(ObjElems2, MaxLen)}
    /\ ctx = EmptyContext
    /\ res = NoResult
    /\ res2 = NoResult
    /\ tv = Var(1)
    /\ rel = "SubType"
    /\ block = << >>

UnifyObj ==
    /\ pc = "start"
    /\ res' = unify(t1, t2, ctx, MaxDepth)
    /\ pc' = "unified"
    /\ UNCHANGED <<t1, t2, ctx, res2, tv, rel, block>>

NextObj == UnifyObj

SpecObj == InitObj /\ [][NextObj]_vars

\* every element of the object obj is a Prop
PropsOnly(obj) == \A i \in 1..Len(obj.elems) : obj.elems[i].e = "Prop"

\* obj has a Prop named name
HasProp(obj, name) ==
    \E i \in 1..Len(obj.elems) : obj.elems[i].e = "Prop" /\ obj.elems[i].name = name

\* obj1 has a Prop with the name of the Prop e2 whose type unifies with the type of e2
HasUnifyingProp(obj1, e2) ==
    \E i \in 1..Len(obj1.elems) :
        /\ obj1.elems[i].e = "Prop"
        /\ obj1.elems[i].name = e2.name
        /\ IsOk(unify(get_property_type(obj1.elems[i]), get_property_type(e2),
                      ctx, MaxDepth))

\* the Props of obj1 that obj2 names
NamedProps(obj1, obj2) ==
    Object(Filter(LAMBDA e : HasProp(obj2, e.name), obj1.elems))

\* obj2 without its optional Props that obj1 does not name
WithoutUnmatchedOptional(obj2, obj1) ==
    Object(Filter(LAMBDA e : ~e.optional \/ HasProp(obj1, e.name), obj2.elems))

\* C7: on property-only objects unify(o1, o2) succeeds exactly when every required
\* Prop of o2 has a same-named Prop in o1 whose type unifies with it; the result is
\* the one obtained without the optional Props of o2 that o1 does not name (they
\* contribute the empty substitution) and without the Props of o1 that o2 does
\* not name (they are ignored).
C7_ObjectProps ==
    (pc = "unified" /\ PropsOnly(t1) /\ PropsOnly(t2)) =>
        /\ Returned(res)
        /\ IsOk(res) <=> \A i \in 1..Len(t2.elems) :
                             ~t2.elems[i].optional => HasUnifyingProp(t1, t2.elems[i])
        /\ res = unify(t1, WithoutUnmatchedOptional(t2, t1), ctx, MaxDepth)
        /\ res = unify(NamedProps(t1, t2), t2, ctx, MaxDepth)

C7_Witness ==
    /\ pc = "unified"
    /\ t1 = Object(<<Prop("a", FALSE, Var(2)), Prop("b", FALSE, strA)>>)
    /\ t2 = Object(<<Prop("a", FALSE, number)>>)
    /\ res = Ok(2 :> number)

C7_WitnessOptional ==
    /\ pc = "unified"
    /\ t1 = Object(<<Prop("a", FALSE, Var(2))>>)
    /\ t2 = Object(<<Prop("b", TRUE, string), Prop("a", FALSE, number)>>)
    /\ res = Ok(2 :> number)

\* the elements of obj that are index or call signatures
Signatures(obj) ==
    {obj.elems[i] : i \in {j \in 1..Len(obj.elems) : obj.elems[j].e \in {"Index", "Call"}}}

\* C8: an object unifies with a supertype made of index and call signatures that
\* the object has, and the unifier returns Ok or Err on objects with signatures.
C8_SignaturesMatchedByKind ==
    (pc = "unified" /\ Signatures(t2) # {}) =>
        /\ Returned(res)
        /\ (~\E i \in 1..Len(t2.elems) : t2.elems[i].e = "Prop")
              /\ Signatures(t2) \subseteq Signatures(t1)
           => IsOk(res)

(***************************************************************************)
(* unify of a call site with a function type.                              *)
(***************************************************************************)
TupleSpread == Rest(Tuple(<<five, strA>>))
ArraySpread == Rest(Array(number))

\* the arguments of a call: values and spreads
CallArgs == {five, strA, TupleSpread, ArraySpread}

\* the regular parameters of a function
RegularParams == {P(number), P(string), POpt(number), P(Var(2))}

\* the parameter lists: regular parameters, then possibly a rest parameter
ParamLists ==
    LET regular == SeqsUpTo(RegularParams, MaxLen)
    IN regular \cup {Append(ps, PRest(Array(number))) : ps \in regular}

InitCall ==
    /\ pc = "start"
    /\ t1 \in {App(args, Var(1)) : args \in SeqsUpTo(CallArgs, MaxLen + 1)}
    /\ t2 \in {Lam(params, ret) : params \in ParamLists, ret \in {string, Var(2)}}
    /\ ctx = EmptyContext
    /\ res = NoResult
    /\ res2 = NoResult
    /\ tv = Var(1)
    /\ rel = "SubType"
    /\ block = << >>

UnifyCall ==
    /\ pc = "start"
    /\ res' = unify(t1, t2, ctx, MaxDepth)
    /\ pc' = "unified"
    /\ UNCHANGED <<t1, t2, ctx, res2, tv, rel, block>>

NextCall == UnifyCall

SpecCall == InitCall /\ [][NextCall]_vars

\* the last parameter of lam is a rest parameter
HasRestParam(lam) == Len(lam.params) > 0 /\ lam.params[Len(lam.params)].pat = "Rest"

\* |params| - (number of optional params) - (1 if the last param is a rest param)
LowBound(lam) ==
    LET optionals == {i \in 1..Len(lam.params) : lam.params[i].optional}
    IN Len(lam.params) - Cardinality(optionals) - (IF HasRestParam(lam) THEN 1 ELSE 0)

IsTupleSpread(arg) == arg.k = "Rest" /\ arg.t.k = "Tuple"

IsOtherSpread(arg) == arg.k = "Rest" /\ arg.t.k # "Tuple"

\* the number of arguments of a call, a spread tuple counting for its elements
RECURSIVE ExpandedCount(_)
ExpandedCount(args) ==
    IF args = << >> THEN 0
    ELSE (IF IsTupleSpread(Head(args)) THEN Len(Head(args).t.ts) ELSE 1)
             + ExpandedCount(Tail(args))

\* the arguments of a call, the spread tuples replaced by their elements
RECURSIVE Expanded(_)
Expanded(args) ==
    IF args = << >> THEN << >>
    ELSE (IF IsTupleSpread(Head(args)) THEN Head(args).t.ts ELSE <<Head(args)>>)
             \o Expanded(Tail(args))

NotEnoughArgs == Err("Not enough args provided")

C9_WitnessEnough ==
    /\ pc = "unified"
    /\ t1 = App(<<TupleSpread>>, Var(1))
    /\ t2 = Lam(<<P(number), P(string)>>, string)
    /\ res = Ok(1 :> string)

\* no parameter of lam has a type with variables
GroundParams(lam) == \A i \in 1..Len(lam.params) : lam.params[i].t.k = "Keyword"

\* the arguments args unify one by one with the parameters of lam
UnifyPositionally(args, lam) ==
    \A i \in 1..Len(lam.params) :
        IsOk(unify(args[i], get_type(lam.params[i]), ctx, MaxDepth))

\* C10: for a lambda without a rest parameter and a call with more arguments than
\* parameters, the result is that of the call with the first |params| arguments
\* (the surplus is ignored and contributes no bindings); it is Ok when these
\* arguments unify positionally with the parameters and the return types unify.
\* A spread tuple stands for its elements; any other spread is rejected.
C10_SurplusArgsIgnored ==
    (pc = "unified" /\ ~HasRestParam(t2)) =>
        LET args == Expanded(t1.args)
            n == Len(t2.params)
        IN /\ (\E i \in 1..Len(t1.args) : IsOtherSpread(t1.args[i])) => res.tag = "Err"
           /\ ((\A i \in 1..Len(t1.args) : ~IsOtherSpread(t1.args[i])) /\ Len(args) > n)
              => /\ res = unify(App(Take(args, n), t1.ret), t2, ctx, MaxDepth)
                 /\ GroundParams(t2)
                    => (IsOk(res) <=> /\ UnifyPositionally(args, t2)
                                      /\ IsOk(unify(t1.ret, t2.ret, ctx, MaxDepth)))

C10_Witness ==
    /\ pc = "unified"
    /\ t1 = App(<<five, strA, five>>, Var(1))
    /\ t2 = Lam(<<P(Var(2))>>, Var(2))
    /\ res = Ok((2 :> five) @@ (1 :> five))

C10_WitnessSpread ==
    /\ pc = "unified"
    /\ t1 = App(<<TupleSpread>>, Var(1))
    /\ t2 = Lam(<<P(number)>>, string)
    /\ res = Ok(1 :> string)

\* C11: for a lambda whose last parameter is a rest parameter, a call with spread
\* tuples among its arguments, at any position, unifies as the call with the
\* spread tuples expanded inline does, and the unifier returns Ok or Err.
C11_RestParamOnExpandedArgs ==
    (pc = "unified" /\ HasRestParam(t2)
       /\ \A i \in 1..Len(t1.args) : ~IsOtherSpread(t1.args[i]))
    => /\ Returned(res)
       /\ IsOk(res) <=> IsOk(unify(App(Expanded(t1.args), t1.ret), t2, ctx, MaxDepth))

(***************************************************************************)
(* unify on pairs of function types.                                       *)
(***************************************************************************)
LamParamTypes == {Var(1), Var(2), number, string}

FunctionTypes ==
    {Lam([i \in 1..Len(ts) |-> P(ts[i])], ret) :
        ts \in SeqsUpTo(LamParamTypes, MaxLen), ret \in {Var(2), number, string}}

InitLam ==
    /\ pc = "start"
    /\ t1 \in FunctionTypes
    /\ t2 \in FunctionTypes
    /\ ctx = EmptyContext
    /\ res = NoResult
    /\ res2 = NoResult
    /\ tv = Var(1)
    /\ rel = "SubType"
    /\ block = << >>

UnifyLam ==
    /\ pc = "start"
    /\ res' = unify(t1, t2, ctx, MaxDepth)
    /\ pc' = "unified"
    /\ UNCHANGED <<t1, t2, ctx, res2, tv, rel, block>>

NextLam == UnifyLam

SpecLam == InitLam /\ [][NextLam]_vars

\* the pairs <<sub, sup>> unified one after the other, each under the substitution
\* of the pairs before it: the result of the first failure or, when there is none,
\* the substitution that applies the substitutions of the pairs in their order
RECURSIVE UnifyInSequence(_, _)
UnifyInSequence(pairs, s) ==
    IF pairs = << >> THEN Ok(s)
    ELSE LET r == unify(apply(s, Head(pairs)[1]), apply(s, Head(pairs)[2]),
                        ctx, MaxDepth)
         IN IF ~IsOk(r) THEN r
            ELSE UnifyInSequence(Tail(pairs), compose_subs(r.s, s))

\* the parameters of l2 under those of l1, then the return type of l1 under that
\* of l2
LamPairs(l1, l2) ==
    [i \in 1..Len(l1.params) |-> <<l2.params[i].t, l1.params[i].t>>]
        \o <<<<l1.ret, l2.ret>>>>

\* C12: unify(Lam l1, Lam l2) fails when l1 has more parameters than l2; otherwise
\* it succeeds exactly when the parameters unify pairwise contravariantly and then
\* the return types covariantly, each pair under the substitution accumulated so
\* far.
C12_LamLam ==
    pc = "unified" =>
        IF Len(t1.params) > Len(t2.params)
        THEN res = Err("Couldn't unify lambdas")
        ELSE /\ Returned(res)
             /\ IsOk(res) <=> IsOk(UnifyInSequence(LamPairs(t1, t2), EmptySubst))

(***************************************************************************)
(* unify on pairs of tuple types.                                          *)
(***************************************************************************)
SubTupleElems == {five, strA, Var(1)}

SupTupleElems == {number, string, Rest(Array(number)), Rest(Var(2))}

InitTuple ==
    /\ pc = "start"
    /\ t1 \in {Tuple(ts) : ts \in SeqsUpTo(SubTupleElems, MaxLen + 1)}
    /\ t2 \in {Tuple(ts) : ts \in SeqsUpTo(SupTupleElems, MaxLen + 1)}
    /\ ctx = EmptyContext
    /\ res = NoResult
    /\ res2 = NoResult
    /\ tv = Var(1)
    /\ rel = "SubType"
    /\ block = << >>

UnifyTuple ==
    /\ pc = "start"
    /\ res' = unify(t1, t2, ctx, MaxDepth)
    /\ pc' = "unified"
    /\ UNCHANGED <<t1, t2, ctx, res2, tv, rel, block>>

NextTuple == UnifyTuple

SpecTuple == InitTuple /\ [][NextTuple]_vars

\* the positions of the Rest elements of the tuple type sup
RestPositions(sup) == {i \in 1..Len(sup.ts) : sup.ts[i].k = "Rest"}

\* sub and sup unify element by element: the elements of sup before its rest with
\* the first elements of sub, those after it with the last elements of sub, and
\* the rest element's type with the Tuple of the elements of sub in between
UnifiesAround(sub, sup, at) ==
    LET before == at - 1
        after == Len(sup.ts) - at
        middle == SubSeq(sub.ts, before + 1, Len(sub.ts) - after)
    IN /\ \A i \in 1..before : IsOk(unify(sub.ts[i], sup.ts[i], ctx, MaxDepth))
       /\ IsOk(unify(Tuple(middle), sup.ts[at].t, ctx, MaxDepth))
       /\ \A j \in 1..after :
              IsOk(unify(sub.ts[Len(sub.ts) - after + j], sup.ts[at + j], ctx, MaxDepth))

\* C13: unify(Tuple sub, Tuple sup) fails when sup has more than one Rest element
\* or sub has fewer elements than sup has non-rest elements; otherwise it succeeds
\* exactly when the elements before the rest unify positionally and, if sup has a
\* rest, the middle slice of sub unifies as a Tuple with the rest's type and the
\* last elements of sub unify positionally with the elements after the rest.
C13_TupleTuple ==
    pc = "unified" =>
        LET rests == RestPositions(t2)
            min_len == Len(t2.ts) - Cardinality(rests)
        IN IF Cardinality(rests) > 1
           THEN res = Err("Only one rest pattern is allowed in a tuple")
           ELSE IF Len(t1.ts) < min_len
           THEN res = Err("not enough elements to unpack")
           ELSE /\ Returned(res)
                /\ IsOk(res) <=>
                     IF rests = {}
                     THEN \A i \in 1..Len(t2.ts) :
                              IsOk(unify(t1.ts[i], t2.ts[i], ctx, MaxDepth))
                     ELSE UnifiesAround(t1, t2, CHOOSE i \in rests : TRUE)

C13_Witness ==
    /\ pc = "unified"
    /\ t1 = Tuple(<<strA, five, five>>)
    /\ t2 = Tuple(<<string, Rest(Array(number)), number>>)
    /\ res = Ok(EmptySubst)

C13_WitnessTooShort ==
    /\ pc = "unified"
    /\ t1 = Tuple(<<strA>>)
    /\ t2 = Tuple(<<string, Rest(Array(number)), number>>)
    /\ res = Err("not enough elements to unpack")

(***************************************************************************)
(* unify on pairs of named references.                                     *)
(***************************************************************************)
\* type Foo<T> = T[]; type Bar<T> = T[]
AliasSchemes ==
    [n \in {"Foo", "Bar"} |-> Scheme(<<"T">>, Array(Ref("T", NoTypeArgs)))]

AliasContext == Context(AliasSchemes, 0, TRUE)

\* the context in which Bar is not declared
FooContext == Context([n \in {"Foo"} |-> AliasSchemes[n]], 0, TRUE)

RefTypeArgs ==
    {NoTypeArgs} \cup {SomeTypeArgs(<<t>>) : t \in {number, five, strA, Var(1)}}

RefTypes == {Ref(n, args) : n \in {"Foo", "Bar"}, args \in RefTypeArgs}

InitRef ==
    /\ pc = "start"
    /\ t1 \in RefTypes
    /\ t2 \in RefTypes
    /\ ctx \in {AliasContext, FooContext}
    /\ res = NoResult
    /\ res2 = NoResult
    /\ tv = Var(1)
    /\ rel = "SubType"
    /\ block = << >>

UnifyRef ==
    /\ pc = "start"
    /\ res' = unify(t1, t2, ctx, MaxDepth)
    /\ pc' = "unified"
    /\ UNCHANGED <<t1, t2, ctx, res2, tv, rel, block>>

NextRef == UnifyRef

SpecRef == InitRef /\ [][NextRef]_vars

\* C14: unify(Ref a, Ref b) with the same alias name unifies the zipped type
\* arguments pointwise; with different names it returns Ok or Err, the result of
\* unifying the types the two aliases resolve to.
C14_RefRef ==
    pc = "unified" =>
        IF t1.name = t2.name
        THEN (t1.type_args # NoTypeArgs /\ t2.type_args # NoTypeArgs)
             => (IsOk(res) <=>
                   \A i \in 1..Min(Len(t1.type_args[1]), Len(t2.type_args[1])) :
                       IsOk(unify(t1.type_args[1][i], t2.type_args[1][i], ctx, MaxDepth)))
        ELSE /\ Returned(res)
             /\ LET a == lookup_ref_and_instantiate(t1, ctx)
                    b == lookup_ref_and_instantiate(t2, ctx)
                IN IsOk(res) <=> /\ a.tag = "Ok"
                                 /\ b.tag = "Ok"
                                 /\ IsOk(unify(a.t, b.t, ctx, MaxDepth))

(***************************************************************************)
(* bind of a variable that carries a constraint.                           *)
(***************************************************************************)
Constraints == {number, string, Array(number), Union(<<number, string>>)}

\* the variables bound: one id, each of the constraints
ConstrainedVars == {TVar(MaxVar + 1, c) : c \in Constraints}

\* the types they are bound to, among them variables with a constraint of their
\* own and a type in which the bound variable occurs
ConstrainedBindTypes ==
    {number, string, five, strA, Var(1), Var(2),
     TVar(MaxVar + 2, number), TVar(MaxVar + 2, string),
     Array(number), Array(five), Array(Var(1)), Tuple(<<five>>),
     Union(<<number, string>>), Union(<<five, strA>>)}
        \cup {Array(v) : v \in ConstrainedVars}

InitConstrained ==
    /\ pc = "start"
    /\ tv \in ConstrainedVars
    /\ t2 \in ConstrainedBindTypes
    /\ rel \in {"SubType", "SuperType"}
    /\ rel = "SuperType" => t2.k # "Var"
    /\ ctx = EmptyContext
    /\ t1 = tv
    /\ res = NoResult
    /\ res2 = NoResult
    /\ block = << >>

SpecConstrained == InitConstrained /\ [][NextBind]_vars

\* t is a variable with a constraint
IsConstrainedVar(t) == t.k = "Var" /\ t.constraint # NoConstraint

\* the unification of the constraint of v with t in the direction of the relation
ConstraintCheck(v, t, r) ==
    IF r = "SubType" THEN unify(v.constraint, t, ctx, MaxDepth)
    ELSE unify(t, v.constraint, ctx, MaxDepth)

\* C15: when v carries a constraint c and does not occur in t, bind(v, t, rel)
\* succeeds only if c unifies with t in the direction of rel and returns an error
\* otherwise; on success it returns exactly {v -> t}, or {v -> t with the
\* constraint c} when t is an unconstrained variable.  Whenever the constraint
\* check succeeds and t is not itself a constrained variable, bind succeeds.
C15_ConstraintChecked ==
    (pc = "bound" /\ ~OccursIn(tv, t2)) =>
        LET checked == ConstraintCheck(tv, t2, rel)
        IN /\ IsOk(res) => IsOk(checked)
           /\ ~IsOk(checked) => res.tag = "Err"
           /\ (IsOk(checked) /\ ~IsConstrainedVar(t2)) => IsOk(res)
           /\ IsOk(res) =>
                res.s = (tv.id :> (IF t2.k = "Var" THEN TVar(t2.id, tv.constraint)
                                   ELSE t2))

C15_Witness ==
    /\ pc = "bound"
    /\ tv = TVar(MaxVar + 1, number)
    /\ t2 = five
    /\ rel = "SuperType"
    /\ res = Ok((MaxVar + 1) :> five)

C15_WitnessVariable ==
    /\ pc = "bound"
    /\ tv = TVar(MaxVar + 1, string)
    /\ t2 = Var(1)
    /\ res = Ok((MaxVar + 1) :> TVar(1, string))

C15_WitnessRejected ==
    /\ pc = "bound"
    /\ tv = TVar(MaxVar + 1, number)
    /\ t2 = strA
    /\ rel = "SuperType"
    /\ res.tag = "Err"

(***************************************************************************)
(* escalier_hm: types of the arena, as values.  A tuple is the Constructor *)
(* "@@tuple" and a union the Constructor "@@union".                        *)
(***************************************************************************)
\* ast::Lit
Num(value) == [lk |-> "Num", value |-> value]
Str(value) == [lk |-> "Str", value |-> value]

\* TPropKey
StringKey(value) == [key |-> "StringKey", value |-> value]
NumberKey(value) == [key |-> "NumberKey", value |-> value]

\* TObjElem
TProp(name, optional, t) == [e |-> "Prop", name |-> name, optional |-> optional, t |-> t]
TIndex(key_t, t) == [e |-> "Index", key |-> [name |-> "key", t |-> key_t], t |-> t]
TMethod(name, params, ret) ==
    [e |-> "Method", name |-> name, params |-> params, ret |-> ret, type_params |-> << >>]

\* TypeKind
new_constructor(name, types) == [kind |-> "Constructor", name |-> name, types |-> types]
new_lit_type(lit) == [kind |-> "Literal", lit |-> lit]
new_object_type(props) == [kind |-> "Object", props |-> props]
new_utility_type(name, types) == [kind |-> "Utility", name |-> name, types |-> types]
new_func_type(params, ret) ==
    [kind |-> "Function", params |-> params, ret |-> ret, type_params |-> << >>]
\* Variable { instance }: instance is << >> for None and <<t>> for Some(t)
new_var_type(id, instance) == [kind |-> "Variable", id |-> id, instance |-> instance]
new_tuple_type(types) == new_constructor("@@tuple", types)

\* a union of the distinct types: never for none, the type itself for one
new_union_type(types) ==
    LET members == Dedupe(types)
    IN IF Len(members) = 0 THEN new_constructor("never", << >>)
       ELSE IF Len(members) = 1 THEN members[1]
       ELSE new_constructor("@@union", members)

\* Result<Index, Errors>
HmOk(t) == [tag |-> "Ok", t |-> t, msg |-> ""]
InferenceError(msg) == [tag |-> "Err", t |-> new_constructor("never", << >>), msg |-> msg]
HmPanic(msg) == [tag |-> "Panic", t |-> new_constructor("never", << >>), msg |-> msg]
HmOverflow == [tag |-> "Overflow", t |-> new_constructor("never", << >>), msg |-> ""]

\* the names of the built-in type operators
AtNames == {"@@tuple", "@@union", "@@index", "@@keyof"}
\* name.starts_with("@@"), on the names of the model
starts_with_at(name) == name \in AtNames

\* Scheme { type_params: Option<Vec<TypeParam>>, t }: type_params is << >> for
\* None and <<names>> for Some(names)
HmScheme(type_params, t) == [type_params |-> type_params, t |-> t]

\* Context { schemes }
HmContext(schemes) == [schemes |-> schemes]

\* str::parse::<usize>: the decimal strings in their order
DecimalStrings == <<"0", "1", "2", "3", "4", "5">>
\* << >> for a string that is not an unsigned integer, <<n>> otherwise
usize_parse(value) ==
    LET at == {i \in 1..Len(DecimalStrings) : DecimalStrings[i] = value}
    IN IF at = {} THEN << >> ELSE <<(CHOOSE i \in at : TRUE) - 1>>

\* prune: the instance at the end of the chain of instantiated variables
RECURSIVE prune(_)
prune(t) ==
    IF t.kind = "Variable" /\ t.instance # << >> THEN prune(t.instance[1]) ELSE t

\* instantiate_scheme: the type parameters named in mapping replaced by types
RECURSIVE instantiate_scheme(_, _)
instantiate_elem(e, mapping) ==
    IF e.e = "Method"
    THEN [e EXCEPT !.ret = instantiate_scheme(e.ret, mapping)]
    ELSE [e EXCEPT !.t = instantiate_scheme(e.t, mapping)]

instantiate_scheme(t, mapping) ==
    IF t.kind = "Constructor"
    THEN IF t.name \in DOMAIN mapping /\ t.types = << >> THEN mapping[t.name]
         ELSE new_constructor(t.name, [i \in 1..Len(t.types) |->
                                          instantiate_scheme(t.types[i], mapping)])
    ELSE IF t.kind = "Object"
    THEN new_object_type([i \in 1..Len(t.props) |-> instantiate_elem(t.props[i], mapping)])
    ELSE t

\* expand_alias without the check of a scheme that has no type parameters
expand_alias_mut(name, scheme, type_args) ==
    IF scheme.type_params # << >>
    THEN LET type_params == scheme.type_params[1]
         IN IF Len(type_params) # Len(type_args)
            THEN InferenceError("expects a different number of type args")
            ELSE HmOk(scheme.t)
    ELSE HmOk(scheme.t)

expand_alias(name, scheme, type_args) ==
    IF scheme.type_params # << >>
    THEN LET type_params == scheme.type_params[1]
         IN IF Len(type_params) # Len(type_args)
            THEN InferenceError("expects a different number of type args")
            ELSE HmOk(instantiate_scheme(scheme.t,
                         [n \in Range(type_params) |->
                             type_args[CHOOSE i \in 1..Len(type_params) :
                                           /\ type_params[i] = n
                                           /\ \A j \in (i + 1)..Len(type_params) :
                                                  type_params[j] # n]]))
    ELSE IF type_args = << >> THEN HmOk(scheme.t)
         ELSE InferenceError("doesn't require any type args")

KeywordNames == {"number", "string", "boolean", "symbol", "null", "undefined", "never"}

hm_undefined == new_constructor("undefined", << >>)

\* unify of escalier_hm, on a key and the key type of an indexer: a type unifies
\* with itself and a literal with the keyword of its kind
hm_unify(a, b) ==
    IF \/ a = b
       \/ a.kind = "Literal" /\ b.kind = "Constructor" /\ b.types = << >>
            /\ b.name = (IF a.lit.lk = "Num" THEN "number" ELSE "string")
    THEN HmOk(b)
    ELSE InferenceError("type mismatch")

\* get_prop: the end of the arms for a literal key, on the indexer found
get_prop_indexer(key, maybe_index, not_indexed, missing) ==
    IF maybe_index # << >>
    THEN IF IsOk(hm_unify(key, maybe_index[1].key.t))
         THEN HmOk(new_union_type(<<maybe_index[1].t, hm_undefined>>))
         ELSE InferenceError(not_indexed)
    ELSE InferenceError(missing)

\* Prop: T | undefined when optional
hm_prop_type(prop) ==
    IF prop.optional THEN new_union_type(<<prop.t, hm_undefined>>) ELSE prop.t

hm_method_type(method) == new_func_type(method.params, method.ret)

\* get_prop, key a string literal: the loop over object.props.  The tag is None
\* when the loop ends without returning, t then being maybe_index.
RECURSIVE get_prop_named(_, _, _)
get_prop_named(props, name, maybe_index) ==
    IF props = << >> THEN [tag |-> "None", t |-> maybe_index, msg |-> ""]
    ELSE LET e == Head(props)
         IN IF e.e = "Method"
            THEN IF e.name.value = name THEN HmOk(hm_method_type(e))
                 ELSE get_prop_named(Tail(props), name, maybe_index)
            ELSE IF e.e = "Index"
            THEN IF maybe_index # << >>
                 THEN InferenceError("Object types can only have a single indexer")
                 ELSE get_prop_named(Tail(props), name, <<e>>)
            ELSE IF e.name.value = name THEN HmOk(hm_prop_type(e))
                 ELSE get_prop_named(Tail(props), name, maybe_index)

\* get_prop, key a type keyword or a number literal: the loop over object.props
\* collecting the values whose key is of the kind key_kind and the indexer.  The
\* tag is None when the loop ends, t then being <<values, maybe_index>>.
RECURSIVE get_prop_values(_, _, _, _)
get_prop_values(props, key_kind, values, maybe_index) ==
    IF props = << >> THEN [tag |-> "None", t |-> <<values, maybe_index>>, msg |-> ""]
    ELSE LET e == Head(props)
         IN IF e.e = "Index"
            THEN IF maybe_index # << >>
                 THEN InferenceError("Object types can only have a single indexer")
                 ELSE get_prop_values(Tail(props), key_kind, values, <<e>>)
            ELSE IF e.name.key # key_kind
            THEN get_prop_values(Tail(props), key_kind, values, maybe_index)
            ELSE get_prop_values(Tail(props), key_kind,
                     Append(values, IF e.e = "Method" THEN hm_method_type(e)
                                    ELSE hm_prop_type(e)),
                     maybe_index)

get_prop(obj_type, key_type) ==
    IF obj_type.kind # "Object"
    THEN InferenceError("Can't access property on non-object type")
    ELSE IF key_type.kind = "Constructor"
              /\ key_type.name \in {"number", "string", "symbol"}
    THEN LET key_kind == IF key_type.name = "string" THEN "StringKey"
                         ELSE IF key_type.name = "number" THEN "NumberKey"
                         ELSE "None"
             r == get_prop_values(obj_type.props, key_kind, << >>, << >>)
         IN IF r.tag # "None" THEN r
            ELSE IF r.t[2] # << >>
            THEN get_prop_indexer(key_type, r.t[2], "not a valid indexer", "")
            ELSE IF r.t[1] # << >>
            THEN HmOk(new_union_type(Append(r.t[1], hm_undefined)))
            ELSE InferenceError("has no indexer")
    ELSE IF key_type.kind = "Literal" /\ key_type.lit.lk = "Str"
    THEN LET r == get_prop_named(obj_type.props, key_type.lit.value, << >>)
         IN IF r.tag # "None" THEN r
            ELSE get_prop_indexer(key_type, r.t, "Couldn't find property in object",
                                  "Couldn't find property on object")
    ELSE IF key_type.kind = "Literal" /\ key_type.lit.lk = "Num"
    THEN LET r == get_prop_values(obj_type.props, "None", << >>, << >>)
         IN IF r.tag # "None" THEN r
            ELSE get_prop_indexer(key_type, r.t[2], "Couldn't find property in object",
                                  "Couldn't find property on object")
    ELSE IF key_type.kind = "Utility" THEN HmPanic("not yet implemented")
    ELSE InferenceError("not a valid key")

RECURSIVE get_computed_member(_, _, _, _)
RECURSIVE expand_type(_, _, _)

\* get_computed_member on a union: the loop over union.types.  The s of the result
\* is <<result_types, undefined_count>>.
RECURSIVE union_members(_, _, _, _, _, _)
union_members(c, types, key_type, result_types, undefined_count, d) ==
    IF types = << >> THEN [tag |-> "None", t |-> <<result_types, undefined_count>>, msg |-> ""]
    ELSE LET r == get_computed_member(c, Head(types), key_type, d - 1)
         IN IF r.tag \in {"Panic", "Overflow"} THEN r
            ELSE IF IsOk(r)
            THEN union_members(c, Tail(types), key_type, Append(result_types, r.t),
                               undefined_count, d)
            ELSE union_members(c, Tail(types), key_type,
                               IF undefined_count = 0
                               THEN Append(result_types, hm_undefined) ELSE result_types,
                               undefined_count + 1, d)

\* get_computed_member on a tuple
tuple_member(tuple, obj_type, key_type) ==
    IF key_type.kind = "Literal" /\ key_type.lit.lk = "Num"
    THEN LET index == usize_parse(key_type.lit.value)
         IN IF index = << >> THEN InferenceError("isn't a valid index")
            ELSE IF index[1] < Len(tuple.types) THEN HmOk(tuple.types[index[1] + 1])
            ELSE InferenceError("was outside the bounds of the tuple")
    ELSE IF key_type.kind = "Literal" /\ key_type.lit.lk = "Str"
    THEN get_prop(obj_type, key_type)
    ELSE IF key_type.kind = "Constructor" /\ key_type.name = "number"
    THEN HmOk(new_union_type(Append(tuple.types, hm_undefined)))
    ELSE InferenceError("Can only access tuple properties with a number")

get_computed_member(c, obj_type, key_type, d) ==
    IF d <= 0 THEN HmOverflow
    ELSE IF obj_type.kind = "Object" THEN get_prop(obj_type, key_type)
    ELSE IF obj_type.kind = "Constructor" /\ obj_type.name = "@@tuple"
    THEN tuple_member(obj_type, obj_type, key_type)
    ELSE IF obj_type.kind = "Constructor" /\ obj_type.name = "@@union"
    THEN LET r == union_members(c, obj_type.types, key_type, << >>, 0, d)
         IN IF r.tag # "None" THEN r
            ELSE IF r.t[2] = Len(obj_type.types)
            THEN InferenceError("Couldn't find property on object")
            ELSE HmOk(new_union_type(r.t[1]))
    ELSE IF obj_type.kind = "Constructor" /\ ~starts_with_at(obj_type.name)
    THEN IF obj_type.name \in DOMAIN c.schemes
         THEN LET r == expand_alias(obj_type.name, c.schemes[obj_type.name],
                                    obj_type.types)
              IN IF ~IsOk(r) THEN r ELSE get_computed_member(c, r.t, key_type, d - 1)
         ELSE InferenceError("Can't find type alias")
    ELSE InferenceError("Can only access properties on objects/tuples")

\* the keys of the Props of an object, as string literal types
prop_keys(props) ==
    Flatten([i \in 1..Len(props) |->
                IF props[i].e = "Prop"
                THEN <<new_lit_type(Str(props[i].name.value))>> ELSE << >>])

expand_keyof(c, t, d) ==
    LET obj == expand_type(c, t, d - 1)
    IN IF ~IsOk(obj) THEN obj
       ELSE IF obj.t.kind = "Object"
       THEN LET keys == prop_keys(obj.t.props)
            IN IF Len(keys) = 0 THEN HmOk(new_constructor("never", << >>))
               ELSE IF Len(keys) = 1 THEN HmOk(keys[1])
               ELSE HmOk(new_union_type(keys))
       ELSE InferenceError("isn't an object")

expand_type(c, t0, d) ==
    LET t == prune(t0)
    IN IF d <= 0 THEN HmOverflow
       ELSE IF t.kind = "Constructor" /\ ~starts_with_at(t.name)
       THEN IF t.name \in DOMAIN c.schemes
            THEN expand_alias(t.name, c.schemes[t.name], t.types)
            ELSE IF t.name \in KeywordNames THEN HmOk(t)
            ELSE InferenceError("Can't find type alias")
       ELSE IF t.kind = "Utility"
       THEN IF t.name = "@@index" THEN get_computed_member(c, t.types[1], t.types[2], d - 1)
            ELSE IF t.name = "@@keyof" THEN expand_keyof(c, t.types[1], d)
            ELSE InferenceError("Can't find utility type")
       ELSE HmOk(t)

(***************************************************************************)
(* expand_type and expand_keyof.                                           *)
(***************************************************************************)
hm_number == new_constructor("number", << >>)
hm_string == new_constructor("string", << >>)

\* type Point = {x: number, y?: number}; type Box<T> = {value: T};
\* type Pair<A, B> = [A, B]; type Empty<> = {}; and a scheme under the name of
\* the tuple operator
HmSchemes ==
    [n \in {"Point", "Box", "Pair", "Empty", "@@tuple"} |->
        CASE n = "Point" ->
                 HmScheme(<< >>, new_object_type(<<TProp(StringKey("x"), FALSE, hm_number),
                                                   TProp(StringKey("y"), TRUE, hm_number)>>))
          [] n = "Box" ->
                 HmScheme(<<<<"T">>>>,
                          new_object_type(<<TProp(StringKey("value"), FALSE,
                                                  new_constructor("T", << >>))>>))
          [] n = "Pair" ->
                 HmScheme(<<<<"A", "B">>>>,
                          new_tuple_type(<<new_constructor("A", << >>),
                                           new_constructor("B", << >>)>>))
          [] n = "Empty" -> HmScheme(<<<< >>>>, new_object_type(<< >>))
          [] OTHER -> HmScheme(<< >>, hm_number)]

\* the contexts: every alias declared, and Point not declared
HmContexts ==
    {HmContext(HmSchemes),
     HmContext([n \in (DOMAIN HmSchemes) \ {"Point"} |-> HmSchemes[n]])}

AliasNames ==
    {"Point", "Box", "Pair", "Empty", "@@tuple", "@@union", "number", "never", "Unknown"}

\* the named references, direct or behind an instantiated variable
NamedTypes ==
    LET refs == {new_constructor(n, args) :
                    n \in AliasNames, args \in SeqsUpTo({hm_number, hm_string}, MaxLen)}
    IN refs \cup {new_var_type(1, <<r>>) : r \in refs}

InitExpand ==
    /\ pc = "start"
    /\ t1 \in NamedTypes
    /\ ctx \in HmContexts
    /\ t2 = hm_undefined
    /\ res = NoResult
    /\ res2 = NoResult
    /\ tv = Var(1)
    /\ rel = "SubType"
    /\ block = << >>

ExpandType ==
    /\ pc = "start"
    /\ res' = expand_type(ctx, t1, MaxDepth)
    /\ pc' = "expanded"
    /\ UNCHANGED <<t1, t2, ctx, res2, tv, rel, block>>

NextExpand == ExpandType

SpecExpand == InitExpand /\ [][NextExpand]_vars

\* the named reference that t1 is or is instantiated to
Named == IF t1.kind = "Variable" THEN t1.instance[1] ELSE t1

\* C17: a named reference whose name starts with @@ is never looked up; a name in
\* the scheme table resolves iff the number of type arguments is the number of
\* type parameters of the scheme (none for a scheme without type parameters) and
\* gives an error otherwise; a name not in the table resolves to itself when it
\* is a keyword name and gives an error otherwise.
C17_AliasResolution ==
    pc = "expanded" =>
        IF starts_with_at(Named.name) THEN res = HmOk(Named)
        ELSE IF Named.name \in DOMAIN ctx.schemes
        THEN LET scheme == ctx.schemes[Named.name]
                 arity == IF scheme.type_params = << >> THEN 0
                          ELSE Len(scheme.type_params[1])
             IN /\ res.tag \in {"Ok", "Err"}
                /\ IsOk(res) <=> Len(Named.types) = arity
        ELSE IF Named.name \in {"number", "string", "boolean", "symbol", "null",
                                "undefined", "never"}
        THEN res = HmOk(Named)
        ELSE res.tag = "Err"

C17_Witness ==
    /\ pc = "expanded"
    /\ t1 = new_constructor("Box", <<hm_string>>)
    /\ res = HmOk(new_object_type(<<TProp(StringKey("value"), FALSE, hm_string)>>))

C17_WitnessArity ==
    /\ pc = "expanded"
    /\ t1 = new_constructor("Point", <<hm_number>>)
    /\ "Point" \in DOMAIN ctx.schemes
    /\ res = InferenceError("doesn't require any type args")

(***************************************************************************)
(* keyof.                                                                  *)
(***************************************************************************)
\* a: number, b?: string, 0: string, [key: number]: string, m(): number
KeyofElems ==
    {TProp(StringKey("a"), FALSE, hm_number),
     TProp(StringKey("b"), TRUE, hm_string),
     TProp(NumberKey("0"), FALSE, hm_string),
     TIndex(hm_number, hm_string),
     TMethod(StringKey("m"), << >>, hm_number)}

\* object types, references to aliases of object types, and types that do not
\* expand to an object
KeyofTypes ==
    {new_object_type(props) : props \in SeqsUpTo(KeyofElems, MaxLen + 1)}
        \cup {new_constructor("Point", << >>),
              new_constructor("Empty", << >>),
              new_constructor("Box", <<hm_number>>),
              new_constructor("Box", << >>),
              new_constructor("Pair", <<hm_number, hm_string>>),
              new_constructor("Unknown", << >>),
              hm_number,
              new_lit_type(Str("a")),
              new_tuple_type(<<hm_number>>),
              new_func_type(<< >>, hm_number)}

InitKeyof ==
    /\ pc = "start"
    /\ t1 \in KeyofTypes
    /\ ctx \in HmContexts
    /\ t2 = hm_undefined
    /\ res = NoResult
    /\ res2 = NoResult
    /\ tv = Var(1)
    /\ rel = "SubType"
    /\ block = << >>

ExpandKeyof ==
    /\ pc = "start"
    /\ res' = expand_keyof(ctx, t1, MaxDepth)
    /\ res2' = expand_type(ctx, t1, MaxDepth)
    /\ pc' = "expanded"
    /\ UNCHANGED <<t1, t2, ctx, tv, rel, block>>

NextKeyof == ExpandKeyof

SpecKeyof == InitKeyof /\ [][NextKeyof]_vars

\* the keys an object contributes: the string literal type of every property
\* name and the key type of every indexer
ContributedKeys(props) ==
    {new_lit_type(Str(props[i].name.value)) : i \in {j \in 1..Len(props) : props[j].e = "Prop"}}
        \cup {props[i].key.t : i \in {j \in 1..Len(props) : props[j].e = "Index"}}

\* the members of a type read as a union: never has none
UnionMembers(t) ==
    IF t = new_constructor("never", << >>) THEN {}
    ELSE IF t.kind = "Constructor" /\ t.name = "@@union" THEN Range(t.types)
    ELSE {t}

\* C16: on a type that expands to an Object expand_keyof returns never for no
\* keys, the single key for one key and the union of the keys otherwise, every
\* property name contributing its string literal type and every indexer its key
\* type; on a type that does not expand to an Object it returns an error.
C16_KeyofKeys ==
    pc = "expanded" =>
        IF IsOk(res2) /\ res2.t.kind = "Object"
        THEN /\ IsOk(res)
             /\ UnionMembers(res.t) = ContributedKeys(res2.t.props)
             /\ Cardinality(ContributedKeys(res2.t.props)) > 1 =>
                    (res.t.kind = "Constructor" /\ res.t.name = "@@union")
        ELSE res.tag = "Err"

\* the same statement on the objects that have no indexer
C16_KeyofPropsOnly ==
    (pc = "expanded" /\ IsOk(res2) /\ res2.t.kind = "Object"
        /\ \A i \in 1..Len(res2.t.props) : res2.t.props[i].e # "Index")
        => /\ IsOk(res)
           /\ UnionMembers(res.t) = ContributedKeys(res2.t.props)

C16_KeyofNonObject ==
    (pc = "expanded" /\ ~(IsOk(res2) /\ res2.t.kind = "Object")) => res.tag = "Err"

(***************************************************************************)
(* Indexing a tuple with a computed key.                                   *)
(***************************************************************************)
\* Result<(Subst, Type), Vec<TypeError>> of the old checker, the substitution
\* of the key expression left out
TypeError(name) == [tag |-> "Err", t |-> never, msg |-> name]
TypeOk(t) == [tag |-> "Ok", t |-> t, msg |-> ""]
Unwrapped == [tag |-> "Panic", t |-> never, msg |-> "called Result::unwrap() on an Err value"]

\* infer_property_type, object type a Tuple, property a computed key of type
\* prop_t
infer_property_type(obj_t, prop_t) ==
    LET elem_types == obj_t.ts
    IN IF prop_t.k = "Keyword" /\ prop_t.kw = "number"
       THEN TypeOk(Union(Append(elem_types, undefined)))
       ELSE IF prop_t.k = "Lit" /\ prop_t.lk = "Num"
       THEN LET index == usize_parse(prop_t.v)
            IN IF index = << >> THEN Unwrapped
               ELSE IF index[1] < Len(elem_types) THEN TypeOk(elem_types[index[1] + 1])
               ELSE TypeError("IndexOutOfBounds")
       ELSE TypeError("InvalidIndex")

\* the numeric literals: indices in and out of the bounds, a fraction and a
\* negative number
NumLiterals == {"0", "1", "2", "3", "1.5", "-1"}

\* the element types and the key types, each as the type of escalier_hm and as
\* the type of the old checker
TupleElemTypes ==
    {<<hm_number, number>>, <<hm_string, string>>, <<new_lit_type(Num("5")), five>>}

TupleKeyTypes ==
    {<<new_lit_type(Num(v)), Lit("Num", v)>> : v \in NumLiterals}
        \cup {<<hm_number, number>>, <<hm_string, string>>,
              <<new_lit_type(Str("a")), strA>>}

InitIndex ==
    /\ pc = "start"
    /\ \E elems \in SeqsUpTo(TupleElemTypes, MaxLen + 1), key \in TupleKeyTypes :
          /\ t1 = new_tuple_type([i \in 1..Len(elems) |-> elems[i][1]])
          /\ t2 = key[1]
          /\ block = <<Tuple([i \in 1..Len(elems) |-> elems[i][2]]), key[2]>>
    /\ ctx \in HmContexts
    /\ res = NoResult
    /\ res2 = NoResult
    /\ tv = Var(1)
    /\ rel = "SubType"

IndexTuple ==
    /\ pc = "start"
    /\ res' = get_computed_member(ctx, t1, t2, MaxDepth)
    /\ res2' = infer_property_type(block[1], block[2])
    /\ pc' = "indexed"
    /\ UNCHANGED <<t1, t2, ctx, tv, rel, block>>

NextIndex == IndexTuple

SpecIndex == InitIndex /\ [][NextIndex]_vars

\* the index a numeric literal denotes when it is a non-negative integer
IntegerLiterals == [v \in {"0", "1", "2", "3"} |-> CASE v = "0" -> 0 [] v = "1" -> 1
                                                    [] v = "2" -> 2 [] OTHER -> 3]

\* C18 on get_computed_member of escalier_hm: a numeric literal key k gives the
\* type of element k when k is an integer with 0 <= k < n and an error for
\* every other numeric literal; the key number gives the union of the element
\* types and undefined.
C18_TupleIndexHm ==
    pc = "indexed" =>
        /\ (t2.kind = "Literal" /\ t2.lit.lk = "Num") =>
              IF t2.lit.value \in DOMAIN IntegerLiterals
                    /\ IntegerLiterals[t2.lit.value] < Len(t1.types)
              THEN res = HmOk(t1.types[IntegerLiterals[t2.lit.value] + 1])
              ELSE res.tag = "Err"
        /\ t2 = hm_number =>
              /\ IsOk(res)
              /\ UnionMembers(res.t) = Range(t1.types) \cup {hm_undefined}

\* C18 on infer_property_type of the old checker: the same statement.
C18_TupleIndex ==
    pc = "indexed" =>
        /\ (block[2].k = "Lit" /\ block[2].lk = "Num") =>
              IF block[2].v \in DOMAIN IntegerLiterals
                    /\ IntegerLiterals[block[2].v] < Len(block[1].ts)
              THEN res2 = TypeOk(block[1].ts[IntegerLiterals[block[2].v] + 1])
              ELSE res2.tag = "Err"
        /\ block[2] = number =>
              /\ IsOk(res2)
              /\ res2.t.k = "Union"
              /\ Range(res2.t.ts) = Range(block[1].ts) \cup {undefined}

\* the old checker on the keys that denote a non-negative integer, and on number
C18_TupleIndexIntegers ==
    (pc = "indexed" /\ block[2].k = "Lit" /\ block[2].lk = "Num"
        /\ block[2].v \in DOMAIN IntegerLiterals)
        => IF IntegerLiterals[block[2].v] < Len(block[1].ts)
           THEN res2 = TypeOk(block[1].ts[IntegerLiterals[block[2].v] + 1])
           ELSE res2 = TypeError("IndexOutOfBounds")

(***************************************************************************)
(* Member access obj.name of the old checker, as r-value and as l-value,   *)
(* and assignment.                                                         *)
(***************************************************************************)
\* TObjElem of the old checker: properties carry a mutable flag, methods an
\* is_mutating flag
MutProp(name, optional, mutable, t) ==
    [e |-> "Prop", name |-> name, optional |-> optional, mutable |-> mutable, t |-> t]
Getter(name, ret) == [e |-> "Getter", name |-> name, ret |-> ret]
Setter(name, param_t) == [e |-> "Setter", name |-> name, param |-> [t |-> param_t]]
Method(name, is_mutating, params, ret) ==
    [e |-> "Method", name |-> name, is_mutating |-> is_mutating, params |-> params,
     ret |-> ret]

\* an object type with its mutable flag
MutObject(elems, mutable) == [k |-> "Object", elems |-> elems, mutable |-> mutable]

\* get_prop_value without the test of a mutable property
get_prop_value_mut(elems, name, is_lvalue, obj_is_mutable, i) ==
    LET F[j \in i..(Len(elems) + 1)] ==
            IF j > Len(elems) THEN TypeError("MissingKey")
            ELSE LET elem == elems[j]
                 IN IF elem.e = "Prop"
                    THEN IF elem.name = name
                         THEN IF is_lvalue /\ ~obj_is_mutable
                              THEN TypeError("ObjectIsNotMutable")
                              ELSE TypeOk(get_property_type(elem))
                         ELSE F[j + 1]
                    ELSE IF elem.e = "Getter" /\ ~is_lvalue
                    THEN IF elem.name = name THEN TypeOk(elem.ret) ELSE F[j + 1]
                    ELSE IF elem.e = "Setter" /\ is_lvalue /\ obj_is_mutable
                    THEN IF elem.name = name THEN TypeOk(elem.param.t) ELSE F[j + 1]
                    ELSE IF elem.e = "Method" /\ ~is_lvalue
                    THEN IF elem.is_mutating /\ ~obj_is_mutable
                         THEN TypeError("MissingKey")
                         ELSE IF elem.name = name
                         THEN TypeOk(Lam(elem.params, elem.ret))
                         ELSE F[j + 1]
                    ELSE F[j + 1]
    IN F[i]

\* get_prop_value, MemberProp::Ident: the loop over the elements from element i
get_prop_value(elems, name, is_lvalue, obj_is_mutable, i) ==
    LET F[j \in i..(Len(elems) + 1)] ==
            IF j > Len(elems) THEN TypeError("MissingKey")
            ELSE LET elem == elems[j]
                 IN IF elem.e = "Prop"
                    THEN IF elem.name = name
                         THEN IF is_lvalue /\ ~obj_is_mutable
                              THEN TypeError("ObjectIsNotMutable")
                              ELSE IF is_lvalue /\ ~elem.mutable
                              THEN TypeError("PropertyIsNotMutable")
                              ELSE TypeOk(get_property_type(elem))
                         ELSE F[j + 1]
                    ELSE IF elem.e = "Getter" /\ ~is_lvalue
                    THEN IF elem.name = name THEN TypeOk(elem.ret) ELSE F[j + 1]
                    ELSE IF elem.e = "Setter" /\ is_lvalue /\ obj_is_mutable
                    THEN IF elem.name = name THEN TypeOk(elem.param.t) ELSE F[j + 1]
                    ELSE IF elem.e = "Method" /\ ~is_lvalue
                    THEN IF elem.is_mutating /\ ~obj_is_mutable
                         THEN TypeError("MissingKey")
                         ELSE IF elem.name = name
                         THEN TypeOk(Lam(elem.params, elem.ret))
                         ELSE F[j + 1]
                    ELSE F[j + 1]
    IN F[i]

\* a: number, mut a: number, a?: string, b: string, get a(): string,
\* set a(value: number), a(): number, mut m(): number, mut a(): number,
\* [key: string]: number
MemberElems ==
    {MutProp("a", FALSE, FALSE, number),
     MutProp("a", FALSE, TRUE, number),
     MutProp("a", TRUE, FALSE, string),
     MutProp("b", FALSE, TRUE, string),
     Getter("a", string),
     Setter("a", number),
     Method("a", FALSE, << >>, number),
     Method("m", TRUE, << >>, number),
     Index([name |-> "key", t |-> string], number)}

\* the bindings of the identifier x: not mutable and mutable
Bindings == {[mutable |-> m, t |-> number] : m \in BOOLEAN}

\* block is the expression: the property name, whether the access is an
\* l-value, the binding of x, whether the left side of the assignment is x or
\* obj.name, and the type of the right side
InitMember ==
    /\ pc = "start"
    /\ t1 \in {MutObject(elems, m) : elems \in SeqsUpTo(MemberElems, MaxLen), m \in BOOLEAN}
    /\ block \in [name : {"a"}, is_lvalue : BOOLEAN, binding : Bindings,
                  left : {"Ident", "Member"}, rt : {five, strA}]
    /\ t2 = number
    /\ ctx = EmptyContext
    /\ res = NoResult
    /\ res2 = NoResult
    /\ tv = Var(1)
    /\ rel = "SubType"

\* infer_property_type on an object type and obj.name
MemberAccess ==
    /\ pc = "start"
    /\ res' = get_prop_value(t1.elems, block.name, block.is_lvalue, t1.mutable, 1)
    /\ pc' = "accessed"
    /\ UNCHANGED <<t1, t2, ctx, res2, tv, rel, block>>

\* the Assign arm of infer_expr: left = right with left the identifier x or the
\* member obj.name and right an expression of type block.rt; res2 is the result
\* of the unification of the two sides, which the arm reaches when the left side
\* was accepted
AssignExpr ==
    /\ pc = "start"
    /\ res2' = unify(block.rt,
                     IF block.left = "Ident" THEN block.binding.t
                     ELSE get_prop_value(t1.elems, block.name, TRUE, t1.mutable, 1).t,
                     ctx, MaxDepth)
    /\ LET lvalue == IF block.left = "Ident" THEN TypeOk(block.binding.t)
                     ELSE get_prop_value(t1.elems, block.name, TRUE, t1.mutable, 1)
       IN res' = IF block.left = "Ident" /\ ~block.binding.mutable
                 THEN TypeError("NonMutableBindingAssignment")
                 ELSE IF ~IsOk(lvalue) THEN lvalue
                 ELSE IF ~IsOk(res2') THEN [tag |-> res2'.tag, t |-> never, msg |-> res2'.msg]
                 ELSE TypeOk(block.rt)
    /\ pc' = "assigned"
    /\ UNCHANGED <<t1, t2, ctx, tv, rel, block>>

NextMember == MemberAccess \/ AssignExpr

SpecMember == InitMember /\ [][NextMember]_vars

\* the elements of the object named name, of the kinds an r-value reads
Readable(elems, name) ==
    {i \in 1..Len(elems) : elems[i].e \in {"Prop", "Getter", "Method"} /\ elems[i].name = name}

\* the type an r-value lookup gives for an element
ElemType(elem) ==
    IF elem.e = "Prop" THEN get_property_type(elem)
    ELSE IF elem.e = "Getter" THEN elem.ret
    ELSE Lam(elem.params, elem.ret)

\* C19: an r-value lookup of name on an object that has a Prop, Getter or
\* Method named name returns the type of such an element, whatever the other
\* elements and their order; MissingKey is returned only when no element has
\* that name and no indexer accepts the key.
C19_LookupByName ==
    (pc = "accessed" /\ ~block.is_lvalue) =>
        /\ Readable(t1.elems, block.name) # {} =>
              /\ IsOk(res)
              /\ \E i \in Readable(t1.elems, block.name) : res.t = ElemType(t1.elems[i])
        /\ res = TypeError("MissingKey") =>
              /\ Readable(t1.elems, block.name) = {}
              /\ \A i \in 1..Len(t1.elems) : t1.elems[i].e # "Index"

\* the same lookup when the object has no mutating method and no indexer: the
\* first element named name is returned
C19_LookupFirst ==
    (pc = "accessed" /\ ~block.is_lvalue
        /\ \A i \in 1..Len(t1.elems) :
              /\ t1.elems[i].e # "Index"
              /\ t1.elems[i].e = "Method" => ~t1.elems[i].is_mutating)
        => IF Readable(t1.elems, block.name) = {} THEN res = TypeError("MissingKey")
           ELSE res = TypeOk(ElemType(t1.elems[
                        CHOOSE i \in Readable(t1.elems, block.name) :
                            \A j \in Readable(t1.elems, block.name) : i <= j]))

\* the elements named name that an l-value can be written through
Writable(elems, name) ==
    {i \in 1..Len(elems) : elems[i].e \in {"Prop", "Setter"} /\ elems[i].name = name}

FirstWritable(elems, name) ==
    CHOOSE i \in Writable(elems, name) : \A j \in Writable(elems, name) : i <= j

\* the outcome of an l-value access obj.name
LValueOutcome(r, obj, name) ==
    /\ r.tag \in {"Ok", "Err"}
    /\ IsOk(r) =>
          /\ obj.mutable
          /\ \E i \in Writable(obj.elems, name) :
                \/ /\ obj.elems[i].e = "Prop"
                   /\ obj.elems[i].mutable
                   /\ r.t = get_property_type(obj.elems[i])
                \/ /\ obj.elems[i].e = "Setter"
                   /\ r.t = obj.elems[i].param.t
    /\ ~obj.mutable => ~IsOk(r)
    /\ (obj.mutable /\ Writable(obj.elems, name) = {}) => r = TypeError("MissingKey")
    /\ (obj.mutable /\ Writable(obj.elems, name) # {}) =>
          LET elem == obj.elems[FirstWritable(obj.elems, name)]
          IN IF elem.e = "Setter" THEN r = TypeOk(elem.param.t)
             ELSE IF elem.mutable THEN r = TypeOk(get_property_type(elem))
             ELSE r = TypeError("PropertyIsNotMutable")

C20_WitnessNotMutable ==
    /\ pc = "accessed"
    /\ block.is_lvalue
    /\ t1 = MutObject(<<MutProp("a", FALSE, FALSE, number)>>, TRUE)
    /\ res = TypeError("PropertyIsNotMutable")

C20_WitnessGetter ==
    /\ pc = "accessed"
    /\ block.is_lvalue
    /\ t1 = MutObject(<<Getter("a", string)>>, TRUE)
    /\ res = TypeError("MissingKey")

C20_WitnessBinding ==
    /\ pc = "assigned"
    /\ block.left = "Ident"
    /\ ~block.binding.mutable
    /\ res = TypeError("NonMutableBindingAssignment")

C20_WitnessAssigned ==
    /\ pc = "assigned"
    /\ block.left = "Member"
    /\ block.rt = five
    /\ t1 = MutObject(<<MutProp("a", FALSE, TRUE, number)>>, TRUE)
    /\ res = TypeOk(five)

(***************************************************************************)
(* get_prop of escalier_hm with a string literal key.                      *)
(***************************************************************************)
\* a: number, a?: string, b: string, a(): number, [key: string]: number,
\* [key: number]: string
GetPropElems ==
    {TProp(StringKey("a"), FALSE, hm_number),
     TProp(StringKey("a"), TRUE, hm_string),
     TProp(StringKey("b"), FALSE, hm_string),
     TMethod(StringKey("a"), << >>, hm_number),
     TIndex(hm_string, hm_number),
     TIndex(hm_number, hm_string)}

InitGetProp ==
    /\ pc = "start"
    /\ t1 \in {new_object_type(props) : props \in SeqsUpTo(GetPropElems, MaxLen + 1)}
    /\ t2 \in {new_lit_type(Str("a")), new_lit_type(Str("c"))}
    /\ ctx \in HmContexts
    /\ res = NoResult
    /\ res2 = NoResult
    /\ tv = Var(1)
    /\ rel = "SubType"
    /\ block = << >>

GetProp ==
    /\ pc = "start"
    /\ res' = get_prop(t1, t2)
    /\ pc' = "accessed"
    /\ UNCHANGED <<t1, t2, ctx, res2, tv, rel, block>>

NextGetProp == GetProp

SpecGetProp == InitGetProp /\ [][NextGetProp]_vars

\* the Props and Methods of an object of escalier_hm named name
HmReadable(props, name) ==
    {i \in 1..Len(props) : props[i].e \in {"Prop", "Method"} /\ props[i].name.value = name}

HmElemType(elem) ==
    IF elem.e = "Method" THEN hm_method_type(elem) ELSE hm_prop_type(elem)

\* C19 on get_prop of escalier_hm: an object with an element named name gives
\* the type of such an element, whatever the other elements and their order.
C19_HmLookupByName ==
    (pc = "accessed" /\ HmReadable(t1.props, t2.lit.value) # {}) =>
        /\ IsOk(res)
        /\ \E i \in HmReadable(t1.props, t2.lit.value) : res.t = HmElemType(t1.props[i])

\* the same on the objects with at most one indexer, where an error is returned
\* only if no element has the name and no indexer accepts the key
C19_HmLookupOneIndexer ==
    (pc = "accessed"
        /\ Cardinality({i \in 1..Len(t1.props) : t1.props[i].e = "Index"}) <= 1)
        => IF HmReadable(t1.props, t2.lit.value) # {}
           THEN res = HmOk(HmElemType(t1.props[
                        CHOOSE i \in HmReadable(t1.props, t2.lit.value) :
                            \A j \in HmReadable(t1.props, t2.lit.value) : i <= j]))
           ELSE res.tag = "Err" <=>
                    \A i \in 1..Len(t1.props) :
                        t1.props[i].e = "Index" => t1.props[i].key.t # hm_string

(***************************************************************************)
(* Patterns: is_refutable and is_irrefutable.                              *)
(***************************************************************************)
\* PatternKind
IdentPat(name) == [kind |-> "Ident", name |-> name]
RestPat(arg) == [kind |-> "Rest", arg |-> arg]
ObjectPat(props) == [kind |-> "Object", props |-> props]
TuplePat(elems) == [kind |-> "Tuple", elems |-> elems]
LitPat(lit) == [kind |-> "Lit", lit |-> lit]
IsPat(ident, is_id) == [kind |-> "Is", ident |-> ident, is_id |-> is_id]
WildcardPat == [kind |-> "Wildcard"]

\* ObjectPatProp
KeyValuePatProp(key, value) == [prop |-> "KeyValue", key |-> key, value |-> value]
ShorthandPatProp(ident) == [prop |-> "Shorthand", ident |-> ident]
RestPatProp(arg) == [prop |-> "Rest", arg |-> arg]

\* Option<TuplePatElem>: << >> is a hole
TuplePatElem(pattern) == <<[pattern |-> pattern]>>
TuplePatHole == << >>

\* is_refutable with a hole of a tuple pattern taken as refutable
RECURSIVE is_refutable_mut(_)
is_refutable_mut(pat) ==
    IF pat.kind \in {"Ident", "Rest", "Wildcard"} THEN FALSE
    ELSE IF pat.kind \in {"Lit", "Is"} THEN TRUE
    ELSE IF pat.kind = "Object"
    THEN \E i \in 1..Len(pat.props) :
            LET prop == pat.props[i]
            IN IF prop.prop = "KeyValue" THEN is_refutable_mut(prop.value)
               ELSE IF prop.prop = "Shorthand" THEN FALSE
               ELSE is_refutable_mut(prop.arg)
    ELSE \E i \in 1..Len(pat.elems) :
            LET elem == pat.elems[i]
            IN IF elem # << >> THEN is_refutable_mut(elem[1].pattern) ELSE TRUE

RECURSIVE is_refutable(_)
is_refutable(pat) ==
    IF pat.kind \in {"Ident", "Rest", "Wildcard"} THEN FALSE
    ELSE IF pat.kind \in {"Lit", "Is"} THEN TRUE
    ELSE IF pat.kind = "Object"
    THEN \E i \in 1..Len(pat.props) :
            LET prop == pat.props[i]
            IN IF prop.prop = "KeyValue" THEN is_refutable(prop.value)
               ELSE IF prop.prop = "Shorthand" THEN FALSE
               ELSE is_refutable(prop.arg)
    ELSE \E i \in 1..Len(pat.elems) :
            LET elem == pat.elems[i]
            IN IF elem # << >> THEN is_refutable(elem[1].pattern) ELSE FALSE

is_irrefutable(pat) == ~is_refutable(pat)

\* x, _, 5, x is number, ...x, ...5
LeafPatterns ==
    {IdentPat("x"), WildcardPat, LitPat(Num("5")), IsPat("x", "number"),
     RestPat(IdentPat("x")), RestPat(LitPat(Num("5")))}

PatProps(pats) ==
    {KeyValuePatProp("a", q) : q \in pats} \cup {ShorthandPatProp("x")}
        \cup {RestPatProp(q) : q \in pats}

PatElems(pats) == {TuplePatElem(q) : q \in pats} \cup {TuplePatHole}

\* object and tuple patterns of leaves
FlatPatterns ==
    {ObjectPat(props) : props \in SeqsUpTo(PatProps(LeafPatterns), MaxLen)}
        \cup {TuplePat(elems) : elems \in SeqsUpTo(PatElems(LeafPatterns), MaxLen)}

\* some object and tuple patterns to nest
InnerPatterns ==
    {ObjectPat(<< >>),
     ObjectPat(<<ShorthandPatProp("x")>>),
     ObjectPat(<<KeyValuePatProp("a", LitPat(Num("5")))>>),
     ObjectPat(<<RestPatProp(IsPat("x", "number"))>>),
     TuplePat(<<TuplePatHole>>),
     TuplePat(<<TuplePatElem(IdentPat("x")), TuplePatElem(LitPat(Num("5")))>>),
     TuplePat(<<TuplePatElem(RestPat(LitPat(Num("5"))))>>)}

Patterns ==
    LeafPatterns \cup FlatPatterns
        \cup {RestPat(q) : q \in InnerPatterns}
        \cup {ObjectPat(props) : props \in SeqsUpTo(PatProps(InnerPatterns), MaxLen)}
        \cup {TuplePat(elems) : elems \in SeqsUpTo(PatElems(InnerPatterns), MaxLen)}

InitPattern ==
    /\ pc = "start"
    /\ t1 \in Patterns
    /\ t2 = number
    /\ ctx = EmptyContext
    /\ res = NoResult
    /\ res2 = NoResult
    /\ tv = Var(1)
    /\ rel = "SubType"
    /\ block = << >>

IsRefutable ==
    /\ pc = "start"
    /\ res' = is_refutable(t1)
    /\ res2' = is_irrefutable(t1)
    /\ pc' = "classified"
    /\ UNCHANGED <<t1, t2, ctx, tv, rel, block>>

NextPattern == IsRefutable

SpecPattern == InitPattern /\ [][NextPattern]_vars

\* the patterns directly under an object or a tuple pattern: the values of the
\* key-value properties, the arguments of the rest properties, the elements
SubPatterns(pat) ==
    IF pat.kind = "Object"
    THEN {pat.props[i].value : i \in {j \in 1..Len(pat.props) : pat.props[j].prop = "KeyValue"}}
            \cup {pat.props[i].arg : i \in {j \in 1..Len(pat.props) : pat.props[j].prop = "Rest"}}
    ELSE IF pat.kind = "Tuple"
    THEN {pat.elems[i][1].pattern : i \in {j \in 1..Len(pat.elems) : pat.elems[j] # << >>}}
    ELSE {}

C21_WitnessIrrefutable ==
    /\ pc = "classified"
    /\ t1 \in {TuplePat(<<TuplePatHole>>), ObjectPat(<<ShorthandPatProp("x")>>)}
    /\ res = FALSE
    /\ res2 = TRUE

(***************************************************************************)
(* infer_stmt and infer_block: statements, blocks and their contexts.      *)
(***************************************************************************)
\* the depth to which blocks are nested
MaxNest == 2

\* the number of statements of a program, the statements of its blocks and the
\* for statements included
MaxProgram == MaxStmts + 1

\* the names statements declare
DeclNames == {"x", "y"}

\* a binding of the value environment: the type parameters it is quantified
\* over and its type; Unbound for a name that is not declared
Unbound == Scheme(<< >>, NoConstraint)

\* Context of escalier_infer: values, schemes (types) and the fresh-id counter
StmtContext(values, types, count) == [values |-> values, types |-> types, count |-> count]

insert_value(c, name, b) == [c EXCEPT !.values[name] = b]
insert_scheme(c, name, scheme) == [c EXCEPT !.types[name] = scheme]

\* the members of a set of ids in increasing order
RECURSIVE SortedIds(_)
SortedIds(ids) ==
    IF ids = {} THEN << >>
    ELSE LET m == CHOOSE i \in ids : \A j \in ids : i <= j
         IN <<m>> \o SortedIds(ids \ {m})

\* the variables free in the value environment
env_ftv(c) ==
    UNION {ftv(c.values[n].t) \ Range(c.values[n].type_params) :
              n \in {m \in DOMAIN c.values : c.values[m] # Unbound}}

\* close_over: the type with s applied, quantified over its free variables that
\* are not free in the value environment
close_over(s, t, c) ==
    LET u == apply(s, t)
    IN Scheme(SortedIds(ftv(u) \ env_ftv(c)), u)

\* generalize(&empty_env, t)
generalize(t) == Scheme(SortedIds(ftv(t)), t)

\* infer_var_decl that closes over the bindings whatever top_level is
RECURSIVE infer_var_decl_mut(_, _, _, _)
infer_var_decl_mut(pa, s, top_level, c) ==
    IF pa = << >> THEN c
    ELSE infer_var_decl_mut(Tail(pa), s, top_level,
                            insert_value(c, Head(pa).name, close_over(s, Head(pa).t, c)))

\* infer_var_decl after infer_pattern_and_init gave the bindings pa and the
\* substitution s: the loop that inserts the bindings into the context
RECURSIVE infer_var_decl(_, _, _, _)
infer_var_decl(pa, s, top_level, c) ==
    IF pa = << >> THEN c
    ELSE LET binding == IF top_level THEN close_over(s, Head(pa).t, c)
                        ELSE Scheme(<< >>, Head(pa).t)
         IN infer_var_decl(Tail(pa), s, top_level, insert_value(c, Head(pa).name, binding))

\* infer_stmt, `declare let name: t`, after infer_type_ann gave (s, t)
infer_declare(name, s, t, top_level, c) ==
    insert_value(c, name, IF top_level THEN close_over(s, t, c) ELSE Scheme(<< >>, t))

\* the end of infer_block that copies the whole context of the block
infer_block_return_mut(c, new_ctx) == new_ctx

\* the end of infer_block: ctx.count = new_ctx.count
infer_block_return(c, new_ctx) == [c EXCEPT !.count = new_ctx.count]

\* what infer_pattern_and_init gives for a let statement whose fresh variable
\* is a: let x = (a) => a; let x = 5; let [x, y] = .. with the variable 0 of the
\* surrounding context resolved to number; let y = a
LetChoices(a) ==
    {[names |-> <<"x">>, s |-> EmptySubst, t |-> Lam(<<P(a)>>, a)],
     [names |-> <<"x">>, s |-> EmptySubst, t |-> number],
     [names |-> <<"x", "y">>, s |-> 0 :> number, t |-> Lam(<<P(Var(0))>>, a)],
     [names |-> <<"y">>, s |-> EmptySubst, t |-> a]}

\* what infer_type_ann gives for a declare statement
DeclareChoices(a) ==
    {[name |-> "y", s |-> EmptySubst, t |-> Lam(<<P(a)>>, a)],
     [name |-> "x", s |-> 0 :> number, t |-> Array(Var(0))]}

NoDecl == [kind |-> "none"]
NoReturn == [kind |-> "none"]

Frame(c, top_level) ==
    [c |-> c, top_level |-> top_level, entry |-> c, declared |-> {}]

\* block.stack: the contexts of the nested infer_block calls, the caller of the
\* outermost infer_stmt first; block.ids: the ids drawn from the counters;
\* block.decl: the last declaration; block.ret: the last return of infer_block
InitStmt ==
    /\ pc = "stmt"
    /\ \E top_level \in BOOLEAN :
          block = [stack |-> <<Frame(StmtContext([n \in DeclNames |-> Unbound],
                                                 [n \in DeclNames \cup {"xConstructor"} |->
                                                     Unbound], 1),
                                     top_level)>>,
                   n |-> 0, ids |-> << >>, decl |-> NoDecl, ret |-> NoReturn]
    /\ t1 = undefined
    /\ t2 = undefined
    /\ tv = Var(1)
    /\ rel = "SubType"
    /\ ctx = EmptyContext
    /\ res = NoResult
    /\ res2 = NoResult

Top == block.stack[Len(block.stack)]

\* the statement of the current block is inferred and leaves the context c
StmtDone(c, ids, decl, names) ==
    block' = [block EXCEPT !.stack[Len(block.stack)] =
                              [@ EXCEPT !.c = c, !.declared = @ \cup names],
                           !.n = @ + 1, !.ids = @ \o ids, !.decl = decl]

CanInfer == pc = "stmt" /\ block.n < MaxProgram

\* let name = init, and let [x, y] = init: infer_pattern_and_init draws a fresh
\* variable and gives the bindings and a substitution
StmtVarDecl ==
    /\ CanInfer
    /\ \E d \in LetChoices(Var(Top.c.count)) :
          LET c1 == [Top.c EXCEPT !.count = @ + 1]
              pa == [i \in 1..Len(d.names) |-> [name |-> d.names[i], t |-> d.t]]
              c2 == infer_var_decl(pa, d.s, Top.top_level, c1)
          IN StmtDone(c2, <<Top.c.count>>,
                      [kind |-> "let", names |-> Range(d.names), s |-> d.s, t |-> d.t,
                       top_level |-> Top.top_level, before |-> c1, after |-> c2],
                      Range(d.names))
    /\ UNCHANGED <<pc, t1, t2, ctx, res, res2, tv, rel>>

\* declare let name: t
StmtDeclare ==
    /\ CanInfer
    /\ \E d \in DeclareChoices(Var(Top.c.count)) :
          LET c1 == [Top.c EXCEPT !.count = @ + 1]
              c2 == infer_declare(d.name, d.s, d.t, Top.top_level, c1)
          IN StmtDone(c2, <<Top.c.count>>,
                      [kind |-> "declare", names |-> {d.name}, s |-> d.s, t |-> d.t,
                       top_level |-> Top.top_level, before |-> c1, after |-> c2],
                      {d.name})
    /\ UNCHANGED <<pc, t1, t2, ctx, res, res2, tv, rel>>

\* type x = t[]
StmtTypeDecl ==
    /\ CanInfer
    /\ StmtDone(insert_scheme(Top.c, "x", generalize(Array(Var(0)))), << >>, NoDecl, {})
    /\ UNCHANGED <<pc, t1, t2, ctx, res, res2, tv, rel>>

\* class x { }: infer_class gives the type of the constructor
StmtClassDecl ==
    /\ CanInfer
    /\ StmtDone(insert_value(insert_scheme(Top.c, "xConstructor",
                                          Scheme(<< >>, Object(<< >>))),
                             "x", Scheme(<< >>, Ref("xConstructor", NoTypeArgs))),
                << >>, NoDecl, {"x"})
    /\ UNCHANGED <<pc, t1, t2, ctx, res, res2, tv, rel>>

\* an expression statement: the expression draws a fresh variable
StmtExpr ==
    /\ CanInfer
    /\ StmtDone([Top.c EXCEPT !.count = @ + 1], <<Top.c.count>>, NoDecl, {})
    /\ UNCHANGED <<pc, t1, t2, ctx, res, res2, tv, rel>>

\* for (..) { body }: infer_block clones the context and infers the statements
\* of the body with top_level = false
StmtFor ==
    /\ CanInfer
    /\ Len(block.stack) <= MaxNest
    /\ block' = [block EXCEPT !.stack = Append(@, Frame(Top.c, FALSE)),
                               !.n = @ + 1, !.decl = NoDecl]
    /\ UNCHANGED <<pc, t1, t2, ctx, res, res2, tv, rel>>

\* the statements of the body are inferred: ctx.count = new_ctx.count and the
\* for statement of the caller is done
BlockEnd ==
    /\ pc = "stmt"
    /\ Len(block.stack) > 1
    /\ LET caller == block.stack[Len(block.stack) - 1]
           c == infer_block_return(caller.c, Top.c)
       IN block' = [block EXCEPT
                       !.stack = Append(SubSeq(@, 1, Len(@) - 2),
                                        [caller EXCEPT !.c = c]),
                       !.decl = NoDecl,
                       !.ret = [kind |-> "block", before |-> caller.c, after |-> c,
                                new_ctx |-> Top.c, declared |-> Top.declared]]
    /\ UNCHANGED <<pc, t1, t2, ctx, res, res2, tv, rel>>

\* a statement fails: the error is returned through every enclosing infer_block
\* by the ? operator, no counter being copied
StmtFail ==
    /\ CanInfer
    /\ pc' = "stmt_err"
    /\ res' = Err("TypeError")
    /\ block' = [block EXCEPT !.stack = <<@[1]>>, !.decl = NoDecl]
    /\ UNCHANGED <<t1, t2, ctx, res2, tv, rel>>

NextStmt ==
    \/ StmtVarDecl
    \/ StmtDeclare
    \/ StmtTypeDecl
    \/ StmtClassDecl
    \/ StmtExpr
    \/ StmtFor
    \/ BlockEnd
    \/ StmtFail

SpecStmt == InitStmt /\ [][NextStmt]_vars

C22_WitnessBlock ==
    /\ Len(block.stack) = 2
    /\ block.stack[1].top_level
    /\ block.decl.kind = "let"
    /\ block.decl.t = Lam(<<P(Var(1))>>, Var(1))
    /\ Top.c.values["x"] = Scheme(<< >>, Lam(<<P(Var(1))>>, Var(1)))

\* C29: infer_block leaves the values and the schemes of the caller's context
\* unchanged; what the statements of the block declare is visible to the later
\* statements of the block and not to the caller after the block; the counter
\* of the caller is set to the counter reached inside the block and does not
\* decrease, so no id is drawn twice.
C29_BlockFrame ==
    /\ block.ret.kind = "block" =>
          /\ block.ret.after.values = block.ret.before.values
          /\ block.ret.after.types = block.ret.before.types
          /\ block.ret.after.count = block.ret.new_ctx.count
          /\ block.ret.after.count >= block.ret.before.count
          /\ [block.ret.after EXCEPT !.count = block.ret.before.count] = block.ret.before
    /\ \A k \in 1..Len(block.stack) :
          /\ \A n \in block.stack[k].declared : block.stack[k].c.values[n] # Unbound
          /\ block.stack[k].c.count >= block.stack[k].entry.count
    /\ \A i, j \in 1..Len(block.ids) : i # j => block.ids[i] # block.ids[j]
    /\ pc = "stmt" => \A i \in 1..Len(block.ids) : block.ids[i] < Top.c.count

\* a block that declared x and drew ids returns to a caller where x is not
\* bound, and the caller then draws an id
C29_Witness ==
    /\ pc = "stmt"
    /\ Len(block.stack) = 1
    /\ block.ret.kind = "block"
    /\ "x" \in block.ret.declared
    /\ block.ret.new_ctx.values["x"] # Unbound
    /\ block.ret.before.values["x"] = Unbound
    /\ Top.c.values["x"] = Unbound
    /\ block.ret.after.count > block.ret.before.count
    /\ Top.c.count > block.ret.after.count

(***************************************************************************)
(* Checker::infer_expr of the old checker: scopes, reports, await, binary  *)
(* expressions, lambdas, if-let, match and new.                            *)
(***************************************************************************)
\* Checker: the stack of scopes (the current scope last), the stack of saved
\* reports, the current report and the fresh-id counter
Checker(scopes, reports, current_report, count) ==
    [scopes |-> scopes, reports |-> reports, current_report |-> current_report,
     count |-> count]

Scope(is_async) == [is_async |-> is_async]

current_scope(ck) == ck.scopes[Len(ck.scopes)]

\* push_scope(ScopeKind::Inherit): a child of the current scope becomes current
push_scope(ck) == [ck EXCEPT !.scopes = Append(@, current_scope(ck))]
\* pop_scope: the parent of the current scope becomes current
pop_scope(ck) == [ck EXCEPT !.scopes = SubSeq(@, 1, Len(@) - 1)]
\* self.current_scope.is_async = is_async
set_is_async(ck, is_async) == [ck EXCEPT !.scopes[Len(ck.scopes)].is_async = is_async]

\* push_report: the current report is saved and an empty one started
push_report(ck) ==
    [ck EXCEPT !.reports = Append(@, ck.current_report), !.current_report = << >>]
\* pop_report: the current report is appended to the saved one
pop_report(ck) ==
    [ck EXCEPT !.reports = SubSeq(@, 1, Len(@) - 1),
               !.current_report = ck.reports[Len(ck.reports)] \o ck.current_report]

Diagnostic(code, message) == [code |-> code, message |-> message]

\* the outcome of infer_expr: the checker it leaves and Ok((s, t)) or Err
Inferred(ck, s, t) == [ck |-> ck, tag |-> "Ok", s |-> s, t |-> t, msg |-> ""]
Failed(ck, tag, msg) == [ck |-> ck, tag |-> tag, s |-> EmptySubst, t |-> never, msg |-> msg]

\* expressions
ELit(t) == [e |-> "Lit", t |-> t]
EIdent(name) == [e |-> "Ident", name |-> name]
EAwait(expr) == [e |-> "Await", expr |-> expr]
EBinary(op, left, right) == [e |-> "BinaryExpr", op |-> op, left |-> left, right |-> right]
EUnary(arg) == [e |-> "UnaryExpr", arg |-> arg]
ELambda(is_async, body) == [e |-> "Lambda", is_async |-> is_async, body |-> body]
\* if (let pat = init) { consequent }, pat_ok: whether the pattern is inferred
EIfLet(init, pat_ok, consequent) ==
    [e |-> "IfElse", init |-> init, pat_ok |-> pat_ok, consequent |-> consequent]
\* match (expr) { pat => body, .. }, one entry of arms per arm
EMatch(expr, arms) == [e |-> "Match", expr |-> expr, arms |-> arms]
MatchArm(pat_ok, body) == [pat_ok |-> pat_ok, body |-> body]
\* new expr(arg)
ENew(expr, arg) == [e |-> "New", expr |-> expr, arg |-> arg]

PromiseOf(t) == Ref("Promise", SomeTypeArgs(<<t>>))

\* type Promise<T> = {value: T}
PromiseContext ==
    Context([n \in {"Promise"} |->
                Scheme(<<"T">>, Object(<<Prop("value", FALSE, Ref("T", NoTypeArgs))>>))],
            0, TRUE)

\* the values in scope: n: number, p: Promise<number>, and the class C with the
\* constructors new (a: string) and new (a: number)
ValueEnv ==
    [name \in {"n", "p", "C"} |->
        CASE name = "n" -> number
          [] name = "p" -> PromiseOf(number)
          [] OTHER -> Object(<<Constructor(<<P(string)>>, string, NoTypeArgs),
                               Constructor(<<P(number)>>, number, NoTypeArgs)>>)]

\* Checker::unify, read from the table u of the unifications of the step
checker_unify(u, a, b) == u[<<a, b>>]

is_promise(t) == t.k = "Ref" /\ t.name = "Promise"

await_allowed_mut(ck) == TRUE

\* the test of the Await arm: self.current_scope.is_async
await_allowed(ck) == current_scope(ck).is_async

\* the type of a binary expression: folded for two numeric literals
binary_type(op, a, b) ==
    IF a.k = "Lit" /\ a.lk = "Num" /\ b.k = "Lit" /\ b.lk = "Num"
    THEN IF op = "Add"
         THEN Lit("Num", IF a.v = "5" /\ b.v = "5" THEN "10" ELSE "sum")
         ELSE Lit("Bool", IF a.v = b.v THEN "true" ELSE "false")
    ELSE IF op = "Add" THEN number ELSE Keyword("boolean")

\* the New arm after the arguments: every constructor of the object type is
\* tried under a report of its own
RECURSIVE try_constructors(_, _, _, _, _)
try_constructors(u0, ck, elems, arg_t, results) ==
    IF elems = << >> THEN [ck |-> ck, results |-> results]
    ELSE LET elem == Head(elems)
             ck1 == push_report(ck)
             ret_type == Var(ck1.count)
             ck2 == IF elem.e = "Constructor" THEN [ck1 EXCEPT !.count = @ + 1] ELSE ck1
             u == IF elem.e = "Constructor"
                  THEN checker_unify(u0, App(<<arg_t>>, ret_type), Lam(elem.params, elem.ret))
                  ELSE Err("not a constructor")
             ck3 == IF IsOk(u) THEN [ck2 EXCEPT !.current_report = << >>] ELSE ck2
         IN IF u.tag \in {"Panic", "Overflow"}
            THEN [ck |-> ck2, results |-> <<[tag |-> u.tag, msg |-> u.msg]>>]
            ELSE try_constructors(u0, pop_report(ck3), Tail(elems), arg_t,
                                  IF IsOk(u)
                                  THEN Append(results,
                                              [tag |-> "Ok", s |-> u.s,
                                               t |-> apply(u.s, ret_type),
                                               report |-> ck2.current_report])
                                  ELSE results)

\* results.sort_by(ftv().len()); results.get(0): the first of the results with
\* the fewest free variables
fewest_ftv(results) ==
    results[CHOOSE i \in 1..Len(results) :
                \A j \in 1..Len(results) :
                    \/ Cardinality(ftv(results[i].t)) < Cardinality(ftv(results[j].t))
                    \/ /\ Cardinality(ftv(results[i].t)) = Cardinality(ftv(results[j].t))
                       /\ i <= j]

\* infer_expr with a return from the function where the code has one: an error
\* of a sub-expression, of a pattern or of a unification leaves the function at
\* the ? operator, before the pop_scope of the arm and the pop_report of the
\* epilogue
RECURSIVE infer_expr(_, _, _)
RECURSIVE infer_arms(_, _, _, _, _)

infer_arms(u, ck, expr, arms, ss) ==
    IF arms = << >> THEN Inferred(ck, compose_many_subs(ss), undefined)
    ELSE LET init == infer_expr(u, ck, expr)
             ck1 == push_scope(init.ck)
             body == infer_expr(u, ck1, Head(arms).body)
         IN IF init.tag # "Ok" THEN init
            ELSE IF ~Head(arms).pat_ok THEN Failed(ck1, "Err", "pattern")
            ELSE IF body.tag # "Ok" THEN body
            ELSE LET rest == infer_arms(u, pop_scope(body.ck), expr, Tail(arms),
                                        Append(ss, body.s))
                 IN IF rest.tag # "Ok" THEN rest
                    ELSE [rest EXCEPT !.t = IF Tail(arms) = << >> THEN body.t
                                            ELSE Union(<<body.t, rest.t>>)]

infer_expr(u, ck0, expr) ==
    LET ck == push_report(ck0)
        result ==
          CASE expr.e = "Lit" -> Inferred(ck, EmptySubst, expr.t)
            [] expr.e = "Ident" ->
                 IF expr.name \in DOMAIN ValueEnv
                 THEN Inferred(ck, EmptySubst, ValueEnv[expr.name])
                 ELSE Failed(ck, "Err", "CantFindIdent")
            [] expr.e = "Await" ->
                 IF ~await_allowed(ck)
                 THEN Failed(ck, "Err", "AwaitOutsideOfAsync")
                 ELSE LET r1 == infer_expr(u, ck, expr.expr)
                          inner_t == Var(r1.ck.count)
                          ck2 == [r1.ck EXCEPT !.count = @ + 1]
                          s2 == checker_unify(u, r1.t, PromiseOf(inner_t))
                      IN IF r1.tag # "Ok" THEN r1
                         ELSE IF ~IsOk(s2) THEN Failed(ck2, s2.tag, s2.msg)
                         ELSE Inferred(ck2, compose_subs(s2.s, r1.s), inner_t)
            [] expr.e = "BinaryExpr" ->
                 LET r1 == infer_expr(u, ck, expr.left)
                     r2 == infer_expr(u, r1.ck, expr.right)
                     s3 == checker_unify(u, r1.t, number)
                     s4 == checker_unify(u, r2.t, number)
                     report == (IF IsOk(s3) THEN << >> ELSE <<Diagnostic(1, r1.t)>>)
                                  \o (IF IsOk(s4) THEN << >> ELSE <<Diagnostic(1, r2.t)>>)
                 IN IF r1.tag # "Ok" THEN r1
                    ELSE IF r2.tag # "Ok" THEN r2
                    ELSE IF s3.tag \in {"Panic", "Overflow"} THEN Failed(r2.ck, s3.tag, s3.msg)
                    ELSE IF s4.tag \in {"Panic", "Overflow"} THEN Failed(r2.ck, s4.tag, s4.msg)
                    ELSE Inferred([r2.ck EXCEPT !.current_report = @ \o report],
                                  compose_many_subs(<<r1.s, r2.s, s3.s, s4.s>>),
                                  binary_type(expr.op, r1.t, r2.t))
            [] expr.e = "UnaryExpr" ->
                 LET r1 == infer_expr(u, ck, expr.arg)
                     s2 == checker_unify(u, r1.t, number)
                 IN IF r1.tag # "Ok" THEN r1
                    ELSE IF ~IsOk(s2) THEN Failed(r1.ck, s2.tag, s2.msg)
                    ELSE Inferred(r1.ck, compose_many_subs(<<r1.s, s2.s>>), number)
            [] expr.e = "Lambda" ->
                 LET ck1 == set_is_async(push_scope(ck), expr.is_async)
                     body == infer_expr(u, ck1, expr.body)
                     body_t == IF expr.is_async /\ ~is_promise(body.t)
                               THEN PromiseOf(body.t) ELSE body.t
                 IN IF body.tag # "Ok" THEN body
                    ELSE Inferred(pop_scope(body.ck), body.s,
                                  apply(body.s, Lam(<< >>, body_t)))
            [] expr.e = "IfElse" ->
                 LET init == infer_expr(u, ck, expr.init)
                     ck1 == push_scope(init.ck)
                     body == infer_expr(u, ck1, expr.consequent)
                 IN IF init.tag # "Ok" THEN init
                    ELSE IF ~expr.pat_ok THEN Failed(ck1, "Err", "pattern")
                    ELSE IF body.tag # "Ok" THEN body
                    ELSE Inferred(pop_scope(body.ck), body.s, Union(<<body.t, undefined>>))
            [] expr.e = "Match" -> infer_arms(u, ck, expr.expr, expr.arms, << >>)
            [] OTHER ->
                 LET r1 == infer_expr(u, ck, expr.expr)
                     r2 == infer_expr(u, r1.ck, expr.arg)
                     tried == try_constructors(u, r2.ck,
                                               IF r1.t.k = "Object" THEN r1.t.elems ELSE << >>,
                                               r2.t, << >>)
                 IN IF r1.tag # "Ok" THEN r1
                    ELSE IF r2.tag # "Ok" THEN r2
                    ELSE IF tried.results = << >> THEN Failed(tried.ck, "Err", "Unspecified")
                    ELSE IF tried.results[1].tag # "Ok"
                    THEN Failed(tried.ck, tried.results[1].tag, tried.results[1].msg)
                    ELSE LET picked == fewest_ftv(tried.results)
                         IN Inferred([tried.ck EXCEPT !.current_report = @ \o picked.report],
                                     compose_many_subs(<<r1.s, r2.s, picked.s>>), picked.t)
    IN IF result.tag # "Ok" THEN result
       ELSE [result EXCEPT !.ck = pop_report(result.ck)]

\* 5, "a", n, p and an identifier that is not bound
LeafExprs == {ELit(five), ELit(strA), EIdent("n"), EIdent("p"), EIdent("bad")}

\* the expressions built by one arm on the expressions of S
ExprsOver(S) ==
    {EAwait(x) : x \in S}
        \cup {EUnary(x) : x \in S}
        \cup {ELambda(a, x) : a \in BOOLEAN, x \in S}
        \cup {EBinary("Add", x, y) : x \in S, y \in {ELit(five), ELit(strA)}}
        \cup {EBinary("EqEq", ELit(five), x) : x \in S}
        \cup {EIfLet(i, ok, x) : i \in {EIdent("n"), EIdent("bad")}, ok \in BOOLEAN, x \in S}
        \cup {EMatch(EIdent("n"), <<MatchArm(TRUE, x), MatchArm(ok, y)>>) :
                 ok \in BOOLEAN, x \in S, y \in {EIdent("n"), EIdent("bad")}}
        \cup {ENew(c, x) : c \in {EIdent("C"), EIdent("n")}, x \in S}

Exprs1 == ExprsOver(LeafExprs)

\* lambdas, awaits and if-lets around the expressions of one arm, and lambdas
\* around those
Exprs2 ==
    {ELambda(a, x) : a \in BOOLEAN, x \in Exprs1}
        \cup {EAwait(x) : x \in Exprs1}
        \cup {EIfLet(EIdent("n"), TRUE, x) : x \in Exprs1}

Exprs3 ==
    {ELambda(a, ELambda(b, EAwait(x))) : a, b \in BOOLEAN, x \in LeafExprs}
        \cup {ELambda(TRUE, EIfLet(EIdent("n"), ok, EAwait(x))) : ok \in BOOLEAN, x \in LeafExprs}
        \cup {ELambda(TRUE, EBinary("Add", EAwait(x), y)) : x, y \in LeafExprs}

Exprs == LeafExprs \cup Exprs1 \cup Exprs2 \cup Exprs3

\* the expressions of the statement that follows
NextExprs ==
    {EAwait(EIdent("p")), EIdent("n"), ELambda(FALSE, EAwait(EIdent("p"))),
     ELambda(TRUE, EAwait(EIdent("p"))), EBinary("Add", ELit(strA), EIdent("n"))}

\* the ids the checker draws
FreshIds == 1..8

\* the types of the leaves, and the types of the expressions built by one arm on
\* expressions of the types of T
LeafTypes == {five, strA, number, PromiseOf(number), ValueEnv["C"]}

TypesOver(T) ==
    T \cup {Var(k) : k \in FreshIds}
      \cup {number, string, Keyword("boolean"), Lit("Num", "10"), Lit("Num", "sum"),
            Lit("Bool", "true"), Lit("Bool", "false")}
      \cup {Lam(<< >>, t) : t \in T}
      \cup {Lam(<< >>, PromiseOf(t)) : t \in T}
      \cup {Union(<<t, undefined>>) : t \in T}
      \cup {Union(<<t, number>>) : t \in T}

\* the pairs of types the arms unify: an operand with number or with a promise
\* of a fresh variable, and a call of a constructor with the constructor
UnifyPairs ==
    LET operands == TypesOver(TypesOver(LeafTypes))
    IN (operands \X ({number} \cup {PromiseOf(Var(k)) : k \in FreshIds}))
          \cup ({App(<<t>>, Var(k)) : t \in operands, k \in FreshIds}
                   \X {Lam(<<P(string)>>, string), Lam(<<P(number)>>, number)})

NoOutcome == Failed(Checker(<< >>, << >>, << >>, 0), "None", "")

\* block is the checker: the scope of the module, which is not async, or the
\* scope of the body of an async function; no report, the counter 1. tv is the
\* checker at the last call of infer_expr.
InitExpr ==
    /\ pc = "start"
    /\ t1 \in Exprs
    /\ t2 \in NextExprs
    /\ \E is_async \in BOOLEAN : block = Checker(<<Scope(is_async)>>, << >>, << >>, 1)
    /\ res = NoOutcome
    /\ res2 = NoOutcome
    /\ ctx = PromiseContext
    /\ tv = block
    /\ rel = "SubType"

\* the checker infers the expression t1; the unifications of the arms are
\* those of unify in the context ctx
InferExpr ==
    /\ pc = "start"
    /\ res' = infer_expr([p \in UnifyPairs |-> unify(p[1], p[2], ctx, MaxDepth)], block, t1)
    /\ block' = res'.ck
    /\ tv' = block
    /\ pc' = "first"
    /\ UNCHANGED <<t1, t2, ctx, res2, rel>>

\* the checker goes on with the expression t2 of the next statement
InferNextExpr ==
    /\ pc = "first"
    /\ res.tag \in {"Ok", "Err"}
    /\ res' = infer_expr([p \in UnifyPairs |-> unify(p[1], p[2], ctx, MaxDepth)], block, t2)
    /\ res2' = res
    /\ block' = res'.ck
    /\ tv' = block
    /\ pc' = "second"
    /\ UNCHANGED <<t1, t2, ctx, rel>>

NextExpr == InferExpr \/ InferNextExpr

SpecExpr == InitExpr /\ [][NextExpr]_vars

\* the expression of the last call of infer_expr
LastExpr == IF pc = "second" THEN t2 ELSE t1

\* the leaves that are bound, and their types
BoundLeaves == LeafExprs \ {EIdent("bad")}
LeafType(x) == IF x.e = "Lit" THEN x.t ELSE ValueEnv[x.name]

Unifies(a, b) == IsOk(unify(a, b, PromiseContext, MaxDepth))

\* C28: when infer_expr returns, with Ok or with Err, the scope stack has the
\* depth and the current scope, is_async included, that it had at the call, and
\* every push_report has been matched by a pop_report.
C28_ScopesBalanced ==
    pc \in {"first", "second"} =>
        /\ block.scopes = tv.scopes
        /\ Len(block.reports) = Len(tv.reports)

\* the same for the calls that return Ok
C28_BalancedOnOk ==
    pc \in {"first", "second"} /\ res.tag = "Ok" =>
        /\ block.scopes = tv.scopes
        /\ Len(block.reports) = Len(tv.reports)

\* async () => bad in the scope of the module: the call returns Err and leaves
\* the scope of the lambda, which is async, current, and two reports saved
C28_Leak ==
    /\ pc = "first"
    /\ t1 = ELambda(TRUE, EIdent("bad"))
    /\ tv.scopes = <<Scope(FALSE)>>
    /\ res.tag = "Err"
    /\ block.scopes = <<Scope(FALSE), Scope(TRUE)>>
    /\ Len(block.reports) = 2

\* C23: an Await inferred while the current scope is not async returns
\* AwaitOutsideOfAsync and its operand is not inferred (no scope, no id and no
\* diagnostic comes from it); when the current scope is async the type of the
\* operand is unified with Promise<X> for the fresh variable X, the result type
\* is X on success and the failure of the unification is the error.
C23_AwaitInAsyncOnly ==
    pc \in {"first", "second"} /\ LastExpr.e = "Await" =>
        IF ~current_scope(tv).is_async
        THEN /\ res.tag = "Err"
             /\ res.msg = "AwaitOutsideOfAsync"
             /\ block = push_report(tv)
        ELSE /\ LastExpr.expr = EIdent("bad") => res.msg = "CantFindIdent"
             /\ LastExpr.expr \in BoundLeaves =>
                   LET X == Var(tv.count)
                   IN /\ block.count = tv.count + 1
                      /\ IF Unifies(LeafType(LastExpr.expr), PromiseOf(X))
                         THEN /\ res.tag = "Ok"
                              /\ res.t = X
                              /\ apply(res.s, PromiseOf(X)) = LeafType(LastExpr.expr)
                         ELSE res.tag = "Err"

\* await p in an async scope is the fresh variable, bound to number
C23_Witness ==
    /\ pc = "first"
    /\ t1 = EAwait(EIdent("p"))
    /\ current_scope(tv).is_async
    /\ res.tag = "Ok"
    /\ res.t = Var(1)
    /\ apply(res.s, res.t) = number

\* await new C(5) in a scope that is not async: no id is drawn
C23_WitnessNotAsync ==
    /\ pc = "first"
    /\ t1 = EAwait(ENew(EIdent("C"), ELit(five)))
    /\ ~current_scope(tv).is_async
    /\ res.msg = "AwaitOutsideOfAsync"
    /\ block.count = 1

\* await p as the next statement of a module, after a statement that was
\* inferred with Ok
C23_WitnessSequence ==
    /\ pc = "second"
    /\ t2 = EAwait(EIdent("p"))
    /\ res2.tag = "Ok"
    /\ tv.scopes = <<Scope(FALSE)>>
    /\ res.msg = "AwaitOutsideOfAsync"

\* the unifications of an arm whose operand is a bound leaf, k the counter at
\* the call
UnifsOf(expr, k) ==
    CASE expr.e = "UnaryExpr" -> <<(<<LeafType(expr.arg), number>>)>>
      [] expr.e = "Await" -> <<(<<LeafType(expr.expr), PromiseOf(Var(k))>>)>>
      [] expr.e = "BinaryExpr" ->
           <<(<<LeafType(expr.left), number>>), (<<LeafType(expr.right), number>>)>>
      [] OTHER ->
           [i \in 1..Len(ValueEnv["C"].elems) |->
              <<App(<<LeafType(expr.arg)>>, Var(k + i - 1)),
                Lam(ValueEnv["C"].elems[i].params, ValueEnv["C"].elems[i].ret)>>]

\* the arms with a unification, on bound leaves
UnifyingExprs ==
    {EUnary(x) : x \in BoundLeaves}
        \cup {EAwait(x) : x \in BoundLeaves}
        \cup {EBinary("Add", x, y) : x, y \in BoundLeaves}
        \cup {EBinary("EqEq", x, y) : x, y \in BoundLeaves}
        \cup {ENew(EIdent("C"), x) : x \in BoundLeaves}

\* the positions of those that fail
FailedUnifs(expr, k) ==
    {i \in DOMAIN UnifsOf(expr, k) : ~Unifies(UnifsOf(expr, k)[i][1], UnifsOf(expr, k)[i][2])}

\* C24: a binary expression with an operand that does not unify with number
\* returns Ok with its result type, the empty substitution for that operand and
\* one diagnostic per such operand appended to the current report; a failure of
\* the unification of any other arm is returned as Err.
C24_OnlyBinaryRecovers ==
    /\ pc = "first"
    /\ t1 \in UnifyingExprs
    /\ t1.e = "Await" => current_scope(tv).is_async
    => LET failed == FailedUnifs(t1, tv.count)
       IN IF t1.e = "BinaryExpr"
          THEN /\ res.tag = "Ok"
               /\ res.t = binary_type(t1.op, LeafType(t1.left), LeafType(t1.right))
               /\ Len(block.current_report) = Cardinality(failed)
               /\ failed = DOMAIN UnifsOf(t1, tv.count) => res.s = EmptySubst
          ELSE failed # {} => res.tag = "Err"

\* the part of C24 on binary expressions
C24_BinaryRecovers ==
    pc = "first" /\ t1 \in UnifyingExprs /\ t1.e = "BinaryExpr" =>
        LET failed == FailedUnifs(t1, tv.count)
        IN /\ res.tag = "Ok"
           /\ res.t = binary_type(t1.op, LeafType(t1.left), LeafType(t1.right))
           /\ Len(block.current_report) = Cardinality(failed)
           /\ \A i \in 1..Len(block.current_report) : block.current_report[i].code = 1
           /\ failed = DOMAIN UnifsOf(t1, tv.count) => res.s = EmptySubst

\* the part of C24 on the unary and the await arms
C24_UnaryAwaitFail ==
    /\ pc = "first"
    /\ t1 \in UnifyingExprs
    /\ t1.e \in {"UnaryExpr", "Await"}
    /\ t1.e = "Await" => current_scope(tv).is_async
    => (FailedUnifs(t1, tv.count) # {} => res.tag = "Err")

\* new C(5): the unification with new (a: string) fails and the call returns
\* Ok(number)
C24_NewRecovers ==
    /\ pc = "first"
    /\ t1 = ENew(EIdent("C"), ELit(five))
    /\ 1 \in FailedUnifs(t1, tv.count)
    /\ res.tag = "Ok"
    /\ res.t = number

(***************************************************************************)
(* prune of escalier_hm on the arena: the instance pointers are indices of  *)
(* arena entries and prune rewrites them.                                   *)
(***************************************************************************)
ArenaSize == 4

Indices == 1..ArenaSize

\* the entries of the arena: a variable with its instance, or a type that is
\* not a variable
ArenaVariable(instance) == [kind |-> "Variable", instance |-> instance]
ArenaConstructor(name) == [kind |-> "Constructor", name |-> name]

\* TypeKind::Variable(Variable { instance: Some(value), .. })
is_instantiated(a, t) == a[t].kind = "Variable" /\ a[t].instance # << >>

prune_arena_mut(a, t) ==
    [a |-> a, t |-> IF is_instantiated(a, t) THEN a[t].instance[1] ELSE t]

\* prune(a, t): the index returned and the arena after the call
RECURSIVE prune_arena(_, _)
prune_arena(a, t) ==
    IF ~is_instantiated(a, t) THEN [a |-> a, t |-> t]
    ELSE LET pruned == prune_arena(a, a[t].instance[1])
         IN [a |-> [pruned.a EXCEPT ![t].instance = <<pruned.t>>], t |-> pruned.t]

ArenaEntries ==
    {ArenaVariable(<< >>), ArenaConstructor("number"), ArenaConstructor("string")}
        \cup {ArenaVariable(<<i>>) : i \in Indices}

\* the indices reached from the set S in at most n steps along instance pointers
RECURSIVE Reached(_, _, _)
Reached(a, S, n) ==
    IF n = 0 THEN S
    ELSE Reached(a, S \cup {a[i].instance[1] : i \in {j \in S : is_instantiated(a, j)}}, n - 1)

\* the chain of instance pointers that starts at t, and its end
Chain(a, t) == Reached(a, {t}, ArenaSize)
ChainEnds(a, t) == {i \in Chain(a, t) : ~is_instantiated(a, i)}

\* the arenas unification builds: a variable is instantiated after the occurs
\* check, so every chain of instance pointers ends
Arenas == {a \in [Indices -> ArenaEntries] : \A i \in Indices : ChainEnds(a, i) # {}}

NoPruned == [a |-> << >>, t |-> 0]

\* block is the arena before the call and t1 the index that is pruned
InitPrune ==
    /\ pc = "start"
    /\ block \in Arenas
    /\ t1 \in Indices
    /\ t2 = 0
    /\ res = NoPruned
    /\ res2 = NoPruned
    /\ ctx = EmptyContext
    /\ tv = Var(1)
    /\ rel = "SubType"

Prune ==
    /\ pc = "start"
    /\ res' = prune_arena(block, t1)
    /\ pc' = "pruned"
    /\ UNCHANGED <<t1, t2, ctx, res2, tv, rel, block>>

\* the result is pruned in the arena the first call left
PruneAgain ==
    /\ pc = "pruned"
    /\ res2' = prune_arena(res.a, res.t)
    /\ pc' = "again"
    /\ UNCHANGED <<t1, t2, ctx, res, tv, rel, block>>

NextPrune == Prune \/ PruneAgain

SpecPrune == InitPrune /\ [][NextPrune]_vars

\* C25: prune(t) returns the end of the chain of instance pointers of t, an
\* uninstantiated variable or a type that is not a variable; after the call
\* every instantiated variable of the chain points at the result, no other
\* entry of the arena is changed, and pruning the result returns the result.
C25_PruneCompresses ==
    /\ pc \in {"pruned", "again"} =>
          /\ ChainEnds(block, t1) = {res.t}
          /\ ~is_instantiated(res.a, res.t)
          /\ DOMAIN res.a = DOMAIN block
          /\ \A i \in Indices :
                IF i \in Chain(block, t1) /\ is_instantiated(block, i)
                THEN res.a[i] = [block[i] EXCEPT !.instance = <<res.t>>]
                ELSE res.a[i] = block[i]
    /\ pc = "again" => res2.t = res.t /\ res2.a = res.a

\* a chain of three instantiated variables that ends in a type: after the call
\* the three point at the type
C25_Witness ==
    /\ pc = "again"
    /\ Cardinality(Chain(block, t1)) = ArenaSize
    /\ block[res.t].kind = "Constructor"
    /\ \A i \in Indices \ {res.t} : res.a[i].instance = <<res.t>>
    /\ res.a # block

\* a chain that ends in an uninstantiated variable
C25_WitnessVariable ==
    /\ pc = "pruned"
    /\ res.t # t1
    /\ block[res.t] = ArenaVariable(<< >>)
    /\ res.a # block

(***************************************************************************)
(* PartialEq and Hash of Type in crochet_infer: Type { variant, id }.       *)
(***************************************************************************)
\* Type { variant, id }: every type carries an id, a Var carries nothing else
IdType(variant, id) == [variant |-> variant, id |-> id]

VVar == [v |-> "Var"]
VPrim(prim) == [v |-> "Prim", prim |-> prim]
VLit(lit) == [v |-> "Lit", lit |-> lit]
VTuple(types) == [v |-> "Tuple", types |-> types]
VArray(t) == [v |-> "Array", t |-> t]

\* impl PartialEq for Type, with the derived PartialEq of Variant: the same
\* variant with equal fields, the types inside compared with Type::eq
RECURSIVE type_eq(_, _)
type_eq(a, b) ==
    IF a.variant.v = "Var" THEN a.id = b.id
    ELSE /\ a.variant.v = b.variant.v
         /\ CASE a.variant.v = "Prim" -> a.variant.prim = b.variant.prim
              [] a.variant.v = "Lit" -> a.variant.lit = b.variant.lit
              [] a.variant.v = "Tuple" ->
                   /\ Len(a.variant.types) = Len(b.variant.types)
                   /\ \A i \in 1..Len(a.variant.types) :
                         type_eq(a.variant.types[i], b.variant.types[i])
              [] OTHER -> type_eq(a.variant.t, b.variant.t)

\* impl Hash for Type: what is written to the hasher, two types having the
\* same hash when the same values are written. A Var writes its id; any other
\* type writes the discriminant of its variant and the fields, a Vec its
\* length and its elements.
RECURSIVE type_hash(_)
RECURSIVE hash_all(_)
hash_all(types) ==
    IF types = << >> THEN << >> ELSE type_hash(Head(types)) \o hash_all(Tail(types))

type_hash(t) ==
    IF t.variant.v = "Var" THEN <<t.id>>
    ELSE <<t.variant.v>> \o
         CASE t.variant.v = "Prim" -> <<t.variant.prim>>
           [] t.variant.v = "Lit" -> <<t.variant.lit>>
           [] t.variant.v = "Tuple" -> <<Len(t.variant.types)>> \o hash_all(t.variant.types)
           [] OTHER -> type_hash(t.variant.t)

TypeIds == 1..MaxVar

LeafIdTypes ==
    {IdType(v, id) : v \in {VVar, VPrim("number"), VPrim("string"), VLit("5")},
                     id \in TypeIds}

\* the types inside a tuple of two
InnerIdTypes == {IdType(v, id) : v \in {VVar, VPrim("number")}, id \in TypeIds}

IdTypes ==
    LeafIdTypes
        \cup {IdType(VTuple(<< >>), id) : id \in TypeIds}
        \cup {IdType(VTuple(<<x>>), id) : x \in LeafIdTypes, id \in TypeIds}
        \cup {IdType(VTuple(<<x, y>>), id) : x, y \in InnerIdTypes, id \in TypeIds}
        \cup {IdType(VArray(x), id) : x \in LeafIdTypes, id \in TypeIds}

NoComparison == [ab |-> FALSE, ba |-> FALSE, ha |-> << >>, hb |-> << >>]

InitEq ==
    /\ pc = "start"
    /\ t1 \in IdTypes
    /\ t2 \in IdTypes
    /\ res = NoComparison
    /\ res2 = NoComparison
    /\ ctx = EmptyContext
    /\ tv = Var(1)
    /\ rel = "SubType"
    /\ block = << >>

\* t1 == t2, t2 == t1 and the two hashes
Compare ==
    /\ pc = "start"
    /\ res' = [ab |-> type_eq(t1, t2), ba |-> type_eq(t2, t1),
               ha |-> type_hash(t1), hb |-> type_hash(t2)]
    /\ pc' = "compared"
    /\ UNCHANGED <<t1, t2, ctx, res2, tv, rel, block>>

NextEq == Compare

SpecEq == InitEq /\ [][NextEq]_vars

\* C26: a == b equals b == a; a Var equals another type only if that type is a
\* Var with the same id; two equal types have equal hashes.
C26_Equality ==
    pc = "compared" =>
        /\ res.ab = res.ba
        /\ t1.variant.v = "Var" /\ res.ab => t2.variant.v = "Var" /\ t2.id = t1.id
        /\ res.ab => res.ha = res.hb

\* two Vars are equal iff their ids match, and then their hashes are equal
C26_VarsById ==
    pc = "compared" /\ t1.variant.v = "Var" /\ t2.variant.v = "Var" =>
        /\ res.ab = (t1.id = t2.id)
        /\ res.ab = res.ba
        /\ res.ab => res.ha = res.hb

\* the Var of id 1 equals number of id 1, number of id 1 does not equal the Var,
\* and the two hashes differ
C26_VarEqualsPrim ==
    /\ pc = "compared"
    /\ t1 = IdType(VVar, 1)
    /\ t2 = IdType(VPrim("number"), 1)
    /\ res.ab
    /\ ~res.ba
    /\ res.ha # res.hb

(***************************************************************************)
(* unify with scheme tables whose aliases refer to themselves or to each   *)
(* other.                                                                  *)
(***************************************************************************)
AliasOf(t) == Scheme(<< >>, t)

\* type A = A
SelfContext == Context([n \in {"A"} |-> AliasOf(Ref("A", NoTypeArgs))], 0, TRUE)

\* type A = B; type B = A
MutualContext ==
    Context([n \in {"A", "B"} |-> AliasOf(Ref(IF n = "A" THEN "B" ELSE "A", NoTypeArgs))],
            0, TRUE)

\* type A = A[]; type B = {next: B}
GuardedContext ==
    Context([n \in {"A", "B"} |->
                AliasOf(IF n = "A" THEN Array(Ref("A", NoTypeArgs))
                        ELSE Object(<<Prop("next", FALSE, Ref("B", NoTypeArgs))>>))],
            0, TRUE)

RecursiveContexts == {SelfContext, MutualContext, GuardedContext}

\* finite types over the aliases of the table c
TermTypes(c) ==
    LET refs == {Ref(n, NoTypeArgs) : n \in DOMAIN c.schemes}
    IN {number, Var(1), TVar(2, Ref("A", NoTypeArgs)), Array(number), Array(Array(number)),
        Object(<<Prop("next", FALSE, number)>>),
        Lam(<<P(number)>>, number), App(<<number>>, Var(1))}
          \cup refs
          \cup {Array(r) : r \in refs}
          \cup {KeyOf(r) : r \in refs}
          \cup {Object(<<Prop("next", FALSE, r)>>) : r \in refs}
          \cup {Lam(<<P(r)>>, r) : r \in refs}
          \cup {App(<<r>>, Var(1)) : r \in refs}

InitTerm ==
    /\ pc = "start"
    /\ ctx \in RecursiveContexts
    /\ t1 \in TermTypes(ctx)
    /\ t2 \in TermTypes(ctx)
    /\ res = NoResult
    /\ res2 = NoResult
    /\ tv = Var(1)
    /\ rel = "SubType"
    /\ block = << >>

UnifyTerm ==
    /\ pc = "start"
    /\ res' = unify(t1, t2, ctx, MaxDepth)
    /\ pc' = "unified"
    /\ UNCHANGED <<t1, t2, ctx, res2, tv, rel, block>>

NextTerm == UnifyTerm

SpecTerm == InitTerm /\ [][NextTerm]_vars

\* C30: unify returns after finitely many recursive calls, for every pair of
\* finite types and every scheme table, the tables whose aliases refer to
\* themselves or to each other included: the recursion never goes deeper than
\* the budget.
C30_Terminates ==
    pc = "unified" => res # Overflow

\* with aliases that refer to themselves under an array or a property the
\* recursion ends
C30_GuardedTerminates ==
    pc = "unified" /\ ctx = GuardedContext => res # Overflow

\* the Lam/App swap is followed by the App/Lam arm and ends, whatever the table,
\* when no operand is a reference
C30_SwapTerminates ==
    pc = "unified" /\ t1 = Lam(<<P(number)>>, number) /\ t2 = App(<<number>>, Var(1))
        => Returned(res)

\* unify(number, A) with type A = A: the reference resolves to itself and the
\* next call has the arguments of this one
C30_SelfAliasLoops ==
    /\ pc = "unified"
    /\ ctx = SelfContext
    /\ t1 = number
    /\ t2 = Ref("A", NoTypeArgs)
    /\ lookup_ref_and_instantiate(t2, ctx).t = t2
    /\ res = Overflow

\* unify(number, A) with type A = B and type B = A
C30_MutualAliasLoops ==
    /\ pc = "unified"
    /\ ctx = MutualContext
    /\ t1 = number
    /\ t2 = Ref("A", NoTypeArgs)
    /\ lookup_ref_and_instantiate(lookup_ref_and_instantiate(t2, ctx).t, ctx).t = t2
    /\ res = Overflow

====
